---- MODULE Spec2Model ----
(***************************************************************************)
(* QuestBot: the XP ledger, the XP aggregator, the level-marker            *)
(* synchronizer and the event reactor of src/bot.py, as a state machine.   *)
(* One community (guild) is modelled.  Handlers run on one asyncio event   *)
(* loop, so a handler is atomic up to its first await that yields.         *)
(***************************************************************************)
EXTENDS Integers, Sequences, FiniteSets, TLC

VARIABLES
    ledger,         \* users table: user -> [row, xp, level]
    quests,         \* quests table: message id -> [live, xp_reward, completed_users]
    nextQuestId,    \* message ids handed out so far to quest messages
    optin_message_id, \* QuestBot.optin_message_id (0 is None)
    role_xp_assignments, \* QuestBot.role_xp_assignments[guild]: role -> [xp, type]
    streak_role_gains,   \* streak_role_gains: user -> sequence of [role, xp_awarded]
    memberRoles,    \* the platform's live role state: user -> set of roles
    guildRoles,     \* the level roles that exist in the guild
    memberEvents,   \* on_member_update events delivered but not yet handled
    tasks,          \* update_user_level_role tasks created and not yet finished
    optinPending,   \* user -> opt-in handlers suspended in member.add_roles
    last,           \* history: the last step that changed the state
    questCredits,   \* history: quest -> user -> number of times the reward was awarded
    whitelisted_channels, \* whitelisted_channels table: the channel ids of the guild
    optin_channel_id,     \* QuestBot.optin_channel_id ("none" is None)
    sent,           \* the notification the last step of an event handler delivered
    pXp,            \* calculate_level harness: the input
    pLevel,         \* calculate_level harness: the result (0: not computed)
    pPrev,          \* calculate_level harness: the previous <<input, result>>
    gCtx,           \* command gate harness: the context of the last command checked
    gAllowed,       \* command gate harness: what is_channel_whitelisted_check returned
    provision,      \* create_level_roles harness: the run in progress, or the last one
    confirmation,   \* deleteallquests: the run waiting for its confirmation, or deleting
    quest_messages, \* the quest messages that exist in their channels
    settings,       \* settings table: guild -> the row save_settings wrote
    created_roles,  \* concurrent create_level_roles harness: level -> roles created with that name
    creators        \* concurrent create_level_roles harness: the runs under way

vars == <<ledger, quests, nextQuestId, optin_message_id, role_xp_assignments,
          streak_role_gains, memberRoles, guildRoles, memberEvents, tasks,
          optinPending, last, questCredits, whitelisted_channels,
          optin_channel_id, sent, pXp, pLevel, pPrev, gCtx, gAllowed,
          provision, confirmation, quest_messages, settings, created_roles,
          creators>>

botVars == <<ledger, quests, nextQuestId, optin_message_id, role_xp_assignments,
             streak_role_gains, memberRoles, guildRoles, memberEvents, tasks,
             optinPending, last, questCredits, whitelisted_channels,
             optin_channel_id, sent, confirmation, quest_messages, settings>>

\* the whitelist, the channel of the opt-in message and the settings table
gateVars == <<whitelisted_channels, optin_channel_id, settings>>

\* the state of deleteallquests and the quest messages
deleteVars == <<confirmation, quest_messages>>

\* the runs of create_level_roles that overlap, and the roles they made
creatorVars == <<created_roles, creators>>

probeVars == <<pXp, pLevel, pPrev, gCtx, gAllowed, provision, creatorVars>>

----------------------------------------------------------------------------
(* Bounds of the model *)

MaxQuests == 1          \* quest messages ever posted
MaxBaseXp == 110        \* base XP the administrator commands and quests stay under
MaxStreakGains == 2     \* rows of streak_role_gains per user
MaxPending == 1         \* member-update events delivered and not yet handled
MaxTasks == 1           \* level-role tasks in flight
MaxOptinHandlers == 1   \* opt-in handlers of one user suspended at the same time
MaxProbeXp == 12000     \* calculate_level harness: inputs lie in -MaxProbeXp..MaxProbeXp
MaxCreators == 2        \* runs of create_level_roles that overlap

Users == {"u1"}

QuestRewards == {50}
AddAmounts == {50}
RemoveAmounts == {200}
SetAmounts == {95}

----------------------------------------------------------------------------
(* Roles.  A role is identified by its name, a sequence of words. *)

LevelRoleName(level) == <<"Level", ToString(level)>>

LEVEL_THRESHOLDS == <<0, 100, 500, 1200, 2200, 3500, 5100, 7000, 9200, 11700>>

Levels == DOMAIN LEVEL_THRESHOLDS

LevelRoles == {LevelRoleName(k) : k \in Levels}

StreakRole == <<"7-Day", "Streak">>
BadgeRole == <<"Gold", "Badge">>

OtherRoles == {StreakRole, BadgeRole}

Roles == LevelRoles \cup OtherRoles

\* str.lower() on the words role names are made of
Lower(w) ==
    CASE w = "Badge" -> "badge"
      [] w = "Gold" -> "gold"
      [] w = "Streak" -> "streak"
      [] w = "Level" -> "level"
      [] w = "7-Day" -> "7-day"
      [] OTHER -> w

\* role.name.startswith("Level ")
StartsWithLevel(role) == Len(role) >= 2 /\ role[1] = "Level"

\* "badge" in role.name.lower()
NameHasBadge(role) == \E i \in 1..Len(role) : Lower(role[i]) = "badge"

Max(a, b) == IF a >= b THEN a ELSE b

Range(s) == {s[i] : i \in 1..Len(s)}

----------------------------------------------------------------------------
(* calculate_level: scan the levels 10 down to 1 *)

RECURSIVE calculate_level_from(_, _)
calculate_level_from(level, xp) ==
    IF level = 0 THEN 1
    ELSE IF xp >= LEVEL_THRESHOLDS[level] THEN level
    ELSE calculate_level_from(level - 1, xp)

\* what the scan would return with > in place of >= (a faulty variant)
calculate_level_gt(xp) ==
    IF \E l \in Levels : xp > LEVEL_THRESHOLDS[l]
    THEN CHOOSE l \in Levels : xp > LEVEL_THRESHOLDS[l]
             /\ \A m \in Levels : xp > LEVEL_THRESHOLDS[m] => m <= l
    ELSE 1

calculate_level(xp) == calculate_level_from(Len(LEVEL_THRESHOLDS), xp)

----------------------------------------------------------------------------
(* Persistent store reads *)

NoRow == [row |-> FALSE, xp |-> 0, level |-> 1]

\* get_user_data: the value returned ...
get_user_data(led, u) ==
    IF led[u].row THEN [xp |-> led[u].xp, level |-> led[u].level]
    ELSE [xp |-> 0, level |-> 1]

\* ... and its effect: a missing row is inserted with xp 0 and level 1
get_user_data_store(led, u) ==
    IF led[u].row THEN led
    ELSE [led EXCEPT ![u] = [row |-> TRUE, xp |-> 0, level |-> 1]]

NoAssignment == [xp |-> 0, type |-> "none"]

\* get_role_xp_and_type(...) is not None
HasAssignment(role) == role_xp_assignments[role].type # "none"

get_role_xp_and_type(role) == role_xp_assignments[role]

\* SELECT SUM(xp_awarded) over the user's rows, 0 when there is none
RECURSIVE SumAwarded(_)
SumAwarded(rows) ==
    IF rows = <<>> THEN 0 ELSE Head(rows).xp_awarded + SumAwarded(Tail(rows))

get_accumulated_streak_xp(log, u) == SumAwarded(log[u])

\* a test that lets every member through (a faulty variant)
is_user_opted_in_always(u) == TRUE

\* is_user_opted_in: any held role whose name starts with "Level "
is_user_opted_in(u) == \E r \in memberRoles[u] : StartsWithLevel(r)

----------------------------------------------------------------------------
(* XP aggregator: calculate_total_user_xp, loop by loop *)

\* the first loop without the test of the type (a faulty variant)
custom_role_step_all(role, acc) ==
    IF StartsWithLevel(role) THEN acc
    ELSE IF HasAssignment(role) THEN acc + get_role_xp_and_type(role).xp
    ELSE acc

\* the first loop adding nothing (a faulty variant)
custom_role_step_skip(role, acc) == acc

\* one iteration of the first loop over member.roles
custom_role_step(role, acc) ==
    IF StartsWithLevel(role) THEN acc
    ELSE IF HasAssignment(role) /\ get_role_xp_and_type(role).type # "streak"
         THEN acc + get_role_xp_and_type(role).xp
    ELSE acc

RECURSIVE custom_role_xp(_, _)
custom_role_xp(roles, acc) ==
    IF roles = {} THEN acc
    ELSE LET role == CHOOSE r \in roles : TRUE
         IN custom_role_xp(roles \ {role}, custom_role_step(role, acc))

\* one iteration of the second loop over member.roles
auto_role_step(role, acc) ==
    IF StartsWithLevel(role) THEN acc
    ELSE IF ~HasAssignment(role) /\ NameHasBadge(role) THEN acc + 5
    ELSE acc

RECURSIVE auto_role_xp(_, _)
auto_role_xp(roles, acc) ==
    IF roles = {} THEN acc
    ELSE LET role == CHOOSE r \in roles : TRUE
         IN auto_role_xp(roles \ {role}, auto_role_step(role, acc))

\* the total for a given role set (the member is in the guild)
total_with_roles(led, log, u, roles) ==
    get_user_data(led, u).xp + custom_role_xp(roles, 0)
        + auto_role_xp(roles, 0) + get_accumulated_streak_xp(log, u)

calculate_total_user_xp(led, log, u) ==
    total_with_roles(led, log, u, memberRoles[u])

TotalXp(u) == calculate_total_user_xp(ledger, streak_role_gains, u)

----------------------------------------------------------------------------
(* Channels, notifications and the channel gate of outbound messages *)

\* guild.text_channels, in the order of the guild; the bot may send in each
text_channels == <<"general", "quests", "staff">>

Channels == {text_channels[i] : i \in 1..Len(text_channels)}

\* the channel the staff of Spec and SpecRoles post the bot's messages in
HomeChannels == {"general"}

NoChannel == "none"

\* an embed sent to a channel about a user
Message(kind, channel, user) == [kind |-> kind, channel |-> channel, user |-> user]

\* nothing was sent (send_whitelisted_message returns None)
NoMessage == Message("none", NoChannel, "")

\* get_whitelisted_channels, as the list of channel ids the callers build from it
get_whitelisted_channels(wl) == wl

\* a gate that looks only at whether a whitelist exists (a faulty variant)
send_whitelisted_message_open(channel, wl, msg) == msg

\* send_whitelisted_message for a channel of the guild: what is delivered
send_whitelisted_message(channel, wl, msg) ==
    IF get_whitelisted_channels(wl) = {} THEN msg
    ELSE IF channel \in get_whitelisted_channels(wl) THEN msg
    ELSE NoMessage

\* a command context: ctx.guild is not None, ctx.author.guild_permissions
\* .manage_guild, ctx.command.name, ctx.channel.id
Context(guild, manage_guild, command, channel) ==
    [guild |-> guild, manage_guild |-> manage_guild, command |-> command,
     channel |-> channel]

NoContext == Context(FALSE, FALSE, "", NoChannel)

\* the check that blocks whenever a whitelist exists (a faulty variant)
is_channel_whitelisted_check_closed(ctx, wl) ==
    IF ~ctx.guild THEN TRUE
    ELSE IF ctx.manage_guild THEN TRUE
    ELSE IF ctx.command = "whitelist" THEN TRUE
    ELSE get_whitelisted_channels(wl) = {}

\* is_channel_whitelisted_check(ctx), the global check of every command
is_channel_whitelisted_check(ctx, wl) ==
    IF ~ctx.guild THEN TRUE
    ELSE IF ctx.manage_guild THEN TRUE
    ELSE IF ctx.command = "whitelist" THEN TRUE
    ELSE IF get_whitelisted_channels(wl) = {} THEN TRUE
    ELSE IF ctx.channel \notin get_whitelisted_channels(wl) THEN FALSE
    ELSE TRUE

\* the first text channel the bot may send in, where on_member_update sends
\* with channel.send
first_text_channel == text_channels[1]

----------------------------------------------------------------------------
(* The level-recompute choke point *)

Step(op, user, msg, role, flag) ==
    [op |-> op, user |-> user, msg |-> msg, role |-> role, flag |-> flag]

\* history: a step no property looks at
OtherStep == Step("other", "", 0, <<>>, FALSE)

NoStep == OtherStep

\* asyncio.create_task(update_user_level_role(user, guild, old_level, new_level))
NewTask(u, old_level, new_level) ==
    [user |-> u, old_level |-> old_level, new_level |-> new_level,
     pc |-> "start", toRemove |-> {}]


\* a comparison that always finds a change (a faulty variant)
level_changed_always(old_level, new_level) == TRUE

\* the comparison that decides whether the level is written and a task created
level_changed(old_level, new_level) == old_level # new_level

\* a faulty variant: the write ignores the XP the row holds, so that the change
\* written before is lost
new_base_xp_overwrite(current_xp, xp_change) == Max(0, xp_change)

\* the sum without the lower limit (a faulty variant)
new_base_xp_unclamped(current_xp, xp_change) == current_xp + xp_change

\* UPDATE users SET xp = max(0, xp + xp_change)
new_base_xp(current_xp, xp_change) == Max(0, current_xp + xp_change)

\* update_user_xp: the store and the task list after the call, and what it returns
update_user_xp(led, log, tks, u, xp_change) ==
    LET current_data == get_user_data(led, u)
        led0 == get_user_data_store(led, u)
        old_level == current_data.level
        led1 == [led0 EXCEPT ![u].xp = new_base_xp(current_data.xp, xp_change)]
        total_xp == calculate_total_user_xp(led1, log, u)
        new_level == calculate_level(total_xp)
    IN  IF level_changed(old_level, new_level)
        THEN [ledger |-> [led1 EXCEPT ![u].level = new_level],
              tasks |-> Append(tks, NewTask(u, old_level, new_level)),
              total_xp |-> total_xp, new_level |-> new_level, changed |-> TRUE]
        ELSE [ledger |-> led1, tasks |-> tks,
              total_xp |-> total_xp, new_level |-> new_level, changed |-> FALSE]

\* check_and_update_level_roles: the same comparison with no XP change
check_and_update_level_roles(led, log, tks, u) ==
    LET current_data == get_user_data(led, u)
        led0 == get_user_data_store(led, u)
        old_level == current_data.level
        current_total_xp == calculate_total_user_xp(led0, log, u)
        new_level == calculate_level(current_total_xp)
    IN  IF level_changed(old_level, new_level)
        THEN [ledger |-> [led0 EXCEPT ![u].level = new_level],
              tasks |-> Append(tks, NewTask(u, old_level, new_level)),
              total_xp |-> current_total_xp, new_level |-> new_level, changed |-> TRUE]
        ELSE [ledger |-> led0, tasks |-> tks,
              total_xp |-> current_total_xp, new_level |-> old_level, changed |-> FALSE]

\* the bound on tasks in flight and on base XP, for a result of the two above
WithinBounds(res, u) ==
    /\ Len(res.tasks) <= MaxTasks
    /\ res.ledger[u].xp <= MaxBaseXp

\* create_level_roles: every "Level k" that does not exist yet is created
create_level_roles(roles) ==
    roles \cup {LevelRoleName(level) : level \in
                   {l \in 1..10 : LevelRoleName(l) \notin roles}}

\* a run of create_level_roles: the level the loop is at, the levels it created
\* a role for, the roles of the guild when it began, and how many runs began
Provision(pc, level, created, before, runs) ==
    [pc |-> pc, level |-> level, created |-> created, before |-> before,
     runs |-> runs]

NoProvision == Provision("idle", 0, {}, {}, 0)

\* a lookup that finds nothing (a faulty variant)
existing_role_none(roles, level) == FALSE

\* discord.utils.get(guild.roles, name=role_name) finds a role
existing_role(roles, level) == LevelRoleName(level) \in roles

\* the platform delivers on_member_update(before, after) for a role edit.  The
\* handler reads only after.roles - before.roles: for an edit that removes a role
\* it reads and writes nothing, so its run is folded into the step of the removal
\* and only the events of added roles are queued.
MemberEvent(u, added) == [user |-> u, added |-> added]

\* the bound on the queue of undelivered events
QueueHasRoom == Len(memberEvents) < MaxPending

----------------------------------------------------------------------------
(* Init: the bot constructed, the database created and empty *)

\* the guild the commands and events of the model belong to, and another
\* guild whose quests and settings are in the same tables
ThisGuild == "guild"
OtherGuild == "other"

Guilds == {ThisGuild, OtherGuild}

\* a guild without a row in the settings table
NoSettings == [row |-> FALSE, optin_message_id |-> 0, optin_channel_id |-> NoChannel]

\* save_settings: INSERT OR REPLACE INTO settings, with the attributes
\* self.optin_message_id and self.optin_channel_id of the one QuestBot object
save_settings(st, guild_id, message_id, channel_id) ==
    [st EXCEPT ![guild_id] = [row |-> TRUE, optin_message_id |-> message_id,
                              optin_channel_id |-> channel_id]]

\* the settings table at the start: a row for this guild once its opt-in
\* message has been posted
InitSettings ==
    settings = IF optin_message_id = 0 THEN [g \in Guilds |-> NoSettings]
               ELSE save_settings([g \in Guilds |-> NoSettings], ThisGuild,
                                  optin_message_id, optin_channel_id)

NoQuest == [live |-> FALSE, xp_reward |-> 0, completed_users |-> <<>>,
            channel |-> NoChannel, guild |-> ""]

QuestIds == 1..MaxQuests

OptinMessageIds == {1001}

MessageIds == QuestIds \cup OptinMessageIds

\* no deleteallquests run is under way
NoConfirmation ==
    [pc |-> "idle", author |-> "", message_id |-> 0, quests |-> {}, elapsed |-> 0,
     shown |-> {}]

InitNoDelete ==
    /\ confirmation = NoConfirmation
    /\ quest_messages = {}

InitBot ==
    /\ ledger = [u \in Users |-> NoRow]
    /\ quests = [q \in QuestIds |-> NoQuest]
    /\ nextQuestId = 0
    /\ optin_message_id = 0
    /\ role_xp_assignments = [r \in Roles |-> NoAssignment]
    /\ streak_role_gains = [u \in Users |-> <<>>]
    /\ memberRoles = [u \in Users |-> {}]
    /\ guildRoles = {}
    /\ memberEvents = <<>>
    /\ tasks = <<>>
    /\ optinPending = [u \in Users |-> 0]
    /\ last = NoStep
    /\ questCredits = [q \in QuestIds |-> [u \in Users |-> 0]]
    /\ whitelisted_channels = {}
    /\ optin_channel_id = NoChannel
    /\ sent = NoMessage
    /\ InitNoDelete

\* a run of create_level_roles that overlaps with others: where it is, the
\* level its loop is at, and the caller
Creator(pc, level, origin) == [pc |-> pc, level |-> level, origin |-> origin]

NoCreator == Creator("idle", 0, "")

\* no run is under way, and none has created a role
InitCreators ==
    /\ creators = [r \in 1..MaxCreators |-> NoCreator]
    /\ created_roles = [level \in 1..10 |-> 0]

InitProbe ==
    /\ InitCreators
    /\ pXp = 0
    /\ pLevel = 0
    /\ pPrev = <<0, 0>>
    /\ gCtx = NoContext
    /\ gAllowed = TRUE
    /\ provision = NoProvision

Init == InitBot /\ InitSettings /\ InitProbe

----------------------------------------------------------------------------
(* Startup and the opt-in message *)

\* load_settings: the attributes of the QuestBot object after the call, as
\* <<optin_message_id, optin_channel_id>>; a guild without a row changes nothing
load_settings(st, guild_id, attributes) ==
    IF st[guild_id].row
    THEN <<st[guild_id].optin_message_id, st[guild_id].optin_channel_id>>
    ELSE attributes

\* on_ready, one iteration of the loop over bot.guilds: the settings of the
\* guild are loaded and its level roles are created
on_ready_guild(g) ==
    /\ LET loaded == load_settings(settings, g, <<optin_message_id, optin_channel_id>>)
       IN  /\ optin_message_id' = loaded[1]
           /\ optin_channel_id' = loaded[2]
    /\ guildRoles' = IF g = ThisGuild THEN create_level_roles(guildRoles)
                     ELSE guildRoles
    /\ <<optin_message_id', optin_channel_id', guildRoles'>>
          # <<optin_message_id, optin_channel_id, guildRoles>>
    /\ last' = OtherStep
    /\ sent' = NoMessage
    /\ UNCHANGED <<probeVars, whitelisted_channels, settings, deleteVars, tasks, ledger,
                   quests, nextQuestId, role_xp_assignments, streak_role_gains,
                   memberRoles, memberEvents, optinPending, questCredits>>

\* on_ready for the guild of the model
on_ready == on_ready_guild(ThisGuild)

\* questbot_optin: post the opt-in message and remember its id
questbot_optin(channel) ==
    /\ optin_message_id = 0
    /\ \E m \in OptinMessageIds : optin_message_id' = m
    /\ optin_channel_id' = channel
    /\ settings' = save_settings(settings, ThisGuild, optin_message_id', optin_channel_id')
    /\ last' = OtherStep
    /\ sent' = NoMessage
    /\ UNCHANGED <<probeVars, deleteVars, whitelisted_channels, tasks, ledger, quests, nextQuestId, role_xp_assignments,
                   streak_role_gains, memberRoles, guildRoles, memberEvents,
                   optinPending, questCredits>>

----------------------------------------------------------------------------
(* on_reaction_add, opt-in branch *)

\* a test that knows only the role "Level 1" (a faulty variant)
has_level_role_first_only(u) == LevelRoleName(1) \in memberRoles[u]

\* any(role.name.startswith("Level ") for role in member.roles)
has_level_role(u) == \E r \in memberRoles[u] : StartsWithLevel(r)

\* up to the await of member.add_roles (or of create_level_roles)
optin_start(u) ==
    /\ optin_message_id # 0
    /\ IF has_level_role(u)
       THEN /\ last' = Step("optin_skip", u, optin_message_id, <<>>, FALSE)
            /\ sent' = NoMessage
            /\ UNCHANGED optinPending
       ELSE /\ optinPending[u] < MaxOptinHandlers
            /\ optinPending' = [optinPending EXCEPT ![u] = @ + 1]
            /\ last' = OtherStep
            /\ sent' = NoMessage
    /\ UNCHANGED <<probeVars, gateVars, deleteVars, tasks, ledger, quests, nextQuestId, optin_message_id,
                   role_xp_assignments, streak_role_gains, memberRoles,
                   guildRoles, memberEvents, questCredits>>

\* INSERT OR REPLACE in place of INSERT OR IGNORE (a faulty variant)
insert_or_replace(led, u) == [led EXCEPT ![u] = [row |-> TRUE, xp |-> 0, level |-> 1]]

\* INSERT OR IGNORE INTO users ... VALUES (?, ?, 0, 1)
insert_or_ignore(led, u) ==
    IF led[u].row THEN led ELSE [led EXCEPT ![u] = [row |-> TRUE, xp |-> 0, level |-> 1]]

\* the role is granted, the handler resumes and inserts the ledger row
optin_resume(u) ==
    /\ optinPending[u] > 0
    /\ QueueHasRoom
    /\ optinPending' = [optinPending EXCEPT ![u] = @ - 1]
    /\ guildRoles' = IF LevelRoleName(1) \in guildRoles THEN guildRoles
                     ELSE create_level_roles(guildRoles)
    /\ memberRoles' = [memberRoles EXCEPT ![u] = @ \cup {LevelRoleName(1)}]
    /\ memberEvents' = IF LevelRoleName(1) \in memberRoles[u] THEN memberEvents
                       ELSE Append(memberEvents, MemberEvent(u, {LevelRoleName(1)}))
    /\ ledger' = insert_or_ignore(ledger, u)
    /\ last' = Step("optin", u, optin_message_id, LevelRoleName(1), ~ledger[u].row)
    /\ sent' = send_whitelisted_message(optin_channel_id, whitelisted_channels,
                                        Message("welcome", optin_channel_id, u))
    /\ UNCHANGED <<probeVars, gateVars, deleteVars, tasks, quests, nextQuestId, optin_message_id, role_xp_assignments,
                   streak_role_gains, questCredits>>

\* member.add_roles raises discord.Forbidden: logged, nothing else happens
optin_forbidden(u) ==
    /\ optinPending[u] > 0
    /\ optinPending' = [optinPending EXCEPT ![u] = @ - 1]
    /\ last' = OtherStep
    /\ sent' = NoMessage
    /\ UNCHANGED <<probeVars, gateVars, deleteVars, tasks, ledger, quests, nextQuestId, optin_message_id,
                   role_xp_assignments, streak_role_gains, memberRoles,
                   guildRoles, memberEvents, questCredits>>

----------------------------------------------------------------------------
(* on_reaction_add, quest branch: no await before the commit *)

\* the membership test always failing (a faulty variant)
already_completed_never(completed_users, u) == FALSE

\* user.id in completed_users
already_completed(completed_users, u) == u \in Range(completed_users)

\* the stored reward ignored in favour of the default of old quests (a faulty
\* variant)
quest_xp_reward_default(quest) == 50

\* title, completed_users_json, xp_reward = quest_data
quest_xp_reward(quest) == quest.xp_reward

\* the list written back holding the new user only (a faulty variant: the
\* ids appended before are lost)
append_completed_alone(completed_users, u) == <<u>>

\* completed_users.append(user.id), written back with UPDATE quests
append_completed(completed_users, u) == Append(completed_users, u)

\* a lookup that finds a record for every message (a faulty variant)
quest_data_any(qs, q) == TRUE

\* SELECT ... FROM quests WHERE message_id = ?; if quest_data
quest_data(qs, q) == qs[q].live

quest_reaction(u, q) ==
    /\ q <= nextQuestId
    /\ IF ~quest_data(quests, q)
       THEN UNCHANGED <<last, sent, ledger, quests, tasks, questCredits>>
       ELSE IF ~is_user_opted_in(u)
       THEN /\ last' = Step("refused", u, q, <<>>, FALSE)
            /\ sent' = NoMessage
            /\ UNCHANGED <<ledger, quests, tasks, questCredits>>
       ELSE IF already_completed(quests[q].completed_users, u)
       THEN /\ last' = Step("ack_dup", u, q, <<>>, FALSE)
            /\ sent' = NoMessage
            /\ UNCHANGED <<ledger, quests, tasks, questCredits>>
       ELSE LET res == update_user_xp(ledger, streak_role_gains, tasks,
                                      u, quest_xp_reward(quests[q]))
            IN  /\ WithinBounds(res, u)
                /\ ledger' = res.ledger
                /\ tasks' = res.tasks
                /\ quests' = [quests EXCEPT ![q].completed_users =
                                                  append_completed(@, u)]
                /\ questCredits' = [questCredits EXCEPT ![q][u] = @ + 1]
                /\ last' = Step("quest_done", u, q, <<>>, res.changed)
                /\ sent' = send_whitelisted_message(quests[q].channel,
                               whitelisted_channels,
                               Message("quest_completed", quests[q].channel, u))
    /\ UNCHANGED <<probeVars, gateVars, deleteVars, nextQuestId, optin_message_id, role_xp_assignments,
                   streak_role_gains, memberRoles, guildRoles, memberEvents,
                   optinPending>>

\* on_reaction_add(reaction, user) with the checkmark emoji on message m
on_reaction_add(u, m) ==
    IF optin_message_id # 0 /\ m = optin_message_id
    THEN optin_start(u)
    ELSE m \in QuestIds /\ quest_reaction(u, m)

----------------------------------------------------------------------------
(* update_user_level_role, one step per platform call *)

RemoveAt(seq, i) == [j \in 1..(Len(seq) - 1) |-> IF j < i THEN seq[j] ELSE seq[j + 1]]

\* history: the step before this one belongs to the chain that began with the
\* creation of task i (the step that created it, then only steps of task i)
ChainStart(i) ==
    /\ last.flag
    /\ last.op \in {"quest_done", "addXP", "removeXP", "setXP",
                    "streak", "badge", "auto_badge"}
    /\ i = Len(tasks)

ChainStep(i) ==
    /\ last.flag
    /\ last.op = "level_role_remove"
    /\ last.msg = i

\* a removal loop that takes only the role of old_level (a faulty variant)
stale_level_roles_old_only(u, old_level, new_level) ==
    {role \in memberRoles[u] :
        role = LevelRoleName(old_level) /\ old_level # new_level}

\* the roles the removal loop will remove: member.roles is read when the loop starts
stale_level_roles(u, old_level, new_level) ==
    {role \in memberRoles[u] :
        StartsWithLevel(role) /\ role # LevelRoleName(new_level)}

\* the first run of the task: member.roles is read, and the first platform call
\* (the removal of a stale role) is made
level_role_start(i) ==
    /\ tasks[i].pc = "start"
    /\ LET u == tasks[i].user
           stale == stale_level_roles(u, tasks[i].old_level, tasks[i].new_level)
       IN  /\ stale # {}
           /\ \E role \in stale :
                /\ memberRoles' = [memberRoles EXCEPT ![u] = @ \ {role}]
                /\ tasks' = [tasks EXCEPT ![i].pc = "remove",
                                          ![i].toRemove = stale \ {role}]
                /\ last' = Step("level_role_remove", u, i, role, ChainStart(i))
                /\ sent' = NoMessage
    /\ UNCHANGED <<probeVars, gateVars, deleteVars, ledger, quests, nextQuestId, optin_message_id,
                   role_xp_assignments, streak_role_gains, guildRoles,
                   memberEvents, optinPending, questCredits>>

\* await member.remove_roles(role), for the next stale role
level_role_remove(i) ==
    /\ tasks[i].pc = "remove"
    /\ \E role \in tasks[i].toRemove :
        LET u == tasks[i].user IN
        /\ memberRoles' = [memberRoles EXCEPT ![u] = @ \ {role}]
        /\ tasks' = [tasks EXCEPT ![i].toRemove = @ \ {role}]
        /\ last' = Step("level_role_remove", u, i, role, ChainStep(i))
        /\ sent' = NoMessage
    /\ UNCHANGED <<probeVars, gateVars, deleteVars, ledger, quests, nextQuestId, optin_message_id,
                   role_xp_assignments, streak_role_gains, guildRoles,
                   memberEvents, optinPending, questCredits>>

\* the removal loop is over (or had nothing to remove)
RemovalsDone(i) ==
    \/ tasks[i].pc = "remove" /\ tasks[i].toRemove = {}
    \/ /\ tasks[i].pc = "start"
       /\ stale_level_roles(tasks[i].user, tasks[i].old_level, tasks[i].new_level) = {}

\* the new level role is looked up (created when missing) and added unless held
level_role_grant(i) ==
    /\ RemovalsDone(i)
    /\ QueueHasRoom
    /\ LET u == tasks[i].user
           new_role == LevelRoleName(tasks[i].new_level)
       IN  /\ guildRoles' = IF new_role \in guildRoles THEN guildRoles
                            ELSE create_level_roles(guildRoles)
           /\ memberRoles' = [memberRoles EXCEPT ![u] = @ \cup {new_role}]
           /\ memberEvents' = IF new_role \in memberRoles[u] THEN memberEvents
                              ELSE Append(memberEvents, MemberEvent(u, {new_role}))
           /\ last' = Step("level_role_done", u, i, new_role,
                           IF tasks[i].pc = "start" THEN ChainStart(i) ELSE ChainStep(i))
           /\ sent' = NoMessage
    /\ tasks' = RemoveAt(tasks, i)
    /\ UNCHANGED <<probeVars, gateVars, deleteVars, ledger, quests, nextQuestId, optin_message_id,
                   role_xp_assignments, streak_role_gains, optinPending,
                   questCredits>>

\* an except clause that puts the old level back (a faulty variant)
level_role_except_rollback(led, task) ==
    [led EXCEPT ![task.user].level = task.old_level]

\* the except clauses of update_user_level_role: the error is printed
level_role_except(led, task) == led

\* history: the task ended at a failure
FailedStep(i) ==
    Step("level_role_failed", tasks[i].user, tasks[i].new_level, <<>>,
         IF tasks[i].pc = "start" THEN ChainStart(i) ELSE ChainStep(i))

\* a platform call raises discord.Forbidden: logged, the task ends
level_role_forbidden(i) ==
    /\ \/ ~RemovalsDone(i)
       \/ LevelRoleName(tasks[i].new_level) \notin memberRoles[tasks[i].user]
    /\ ledger' = level_role_except(ledger, tasks[i])
    /\ last' = FailedStep(i)
    /\ sent' = NoMessage
    /\ tasks' = RemoveAt(tasks, i)
    /\ UNCHANGED <<probeVars, gateVars, deleteVars, quests, nextQuestId, optin_message_id,
                   role_xp_assignments, streak_role_gains, memberRoles,
                   guildRoles, memberEvents, optinPending, questCredits>>

\* bot.get_guild or guild.get_member returns None: logged, the task ends
level_role_not_found(i) ==
    /\ tasks[i].pc = "start"
    /\ last' = FailedStep(i)
    /\ sent' = NoMessage
    /\ tasks' = RemoveAt(tasks, i)
    /\ UNCHANGED <<probeVars, gateVars, deleteVars, ledger, quests, nextQuestId, optin_message_id,
                   role_xp_assignments, streak_role_gains, memberRoles,
                   guildRoles, memberEvents, optinPending, questCredits>>

\* the levels at which guild.create_role fails in the model
CreateFailureLevels == 1..3

\* create_level_roles when guild.create_role raises at level k: the roles of
\* the levels below k were created, the exception is swallowed
create_level_roles_until(roles, k) ==
    roles \cup {LevelRoleName(level) : level \in
                   {l \in 1..(k - 1) : LevelRoleName(l) \notin roles}}

\* the target role does not exist and create_level_roles fails at level k:
\* the target is granted when it was created before the failure, and the task
\* ends without a grant when it was not
level_role_create_failed(i, k) ==
    /\ RemovalsDone(i)
    /\ QueueHasRoom
    /\ LevelRoleName(tasks[i].new_level) \notin guildRoles
    /\ LevelRoleName(k) \notin guildRoles
    /\ LET u == tasks[i].user
           new_role == LevelRoleName(tasks[i].new_level)
           roles == create_level_roles_until(guildRoles, k)
       IN  /\ guildRoles' = roles
           /\ IF new_role \in roles
              THEN /\ memberRoles' = [memberRoles EXCEPT ![u] = @ \cup {new_role}]
                   /\ memberEvents' = Append(memberEvents, MemberEvent(u, {new_role}))
                   /\ last' = Step("level_role_done", u, i, new_role,
                                   IF tasks[i].pc = "start" THEN ChainStart(i)
                                   ELSE ChainStep(i))
              ELSE /\ last' = FailedStep(i)
                   /\ UNCHANGED <<memberRoles, memberEvents>>
    /\ sent' = NoMessage
    /\ tasks' = RemoveAt(tasks, i)
    /\ UNCHANGED <<probeVars, gateVars, deleteVars, ledger, quests, nextQuestId, optin_message_id,
                   role_xp_assignments, streak_role_gains, optinPending,
                   questCredits>>

----------------------------------------------------------------------------
(* on_member_update: only the added roles are looked at *)

\* an insert that skips a role already in the log (a faulty variant)
record_streak_role_gain_once(log, u, role, xp_awarded) ==
    IF \E k \in 1..Len(log[u]) : log[u][k].role = role THEN log
    ELSE [log EXCEPT ![u] = Append(@, [role |-> role, xp_awarded |-> xp_awarded])]

\* INSERT INTO streak_role_gains
record_streak_role_gain(log, u, role, xp_awarded) ==
    [log EXCEPT ![u] = Append(@, [role |-> role, xp_awarded |-> xp_awarded])]

\* the embed on_member_update sends for a role that earned XP
role_notification(kind) == IF kind = "streak" THEN "streak_role" ELSE "badge_role"

\* the kind of handling an added role gets
added_role_kind(u, role) ==
    IF ~is_user_opted_in(u) THEN "skip"
    ELSE IF HasAssignment(role)
         THEN (IF get_role_xp_and_type(role).type = "streak" THEN "streak" ELSE "badge")
    ELSE IF NameHasBadge(role) THEN "auto_badge"
    ELSE "none"

on_member_update ==
    /\ memberEvents # <<>>
    /\ LET e == Head(memberEvents)
           u == e.user
       IN       LET role == CHOOSE r \in e.added : TRUE
                    kind == added_role_kind(u, role)
                    log1 == IF kind = "streak"
                            THEN record_streak_role_gain(streak_role_gains, u, role,
                                     get_role_xp_and_type(role).xp)
                            ELSE streak_role_gains
                    res == check_and_update_level_roles(ledger, log1, tasks, u)
                IN  IF kind \in {"skip", "none"}
                    THEN /\ last' = IF kind = "skip"
                                    THEN Step("skip", u, 0, role, FALSE)
                                    ELSE OtherStep
                         /\ sent' = NoMessage
                         /\ UNCHANGED <<ledger, streak_role_gains, tasks>>
                    ELSE /\ Len(log1[u]) <= MaxStreakGains
                         /\ WithinBounds(res, u)
                         /\ streak_role_gains' = log1
                         /\ ledger' = res.ledger
                         /\ tasks' = res.tasks
                         /\ last' = Step(kind, u, 0, role, res.changed)
                         /\ sent' = Message(role_notification(kind),
                                            first_text_channel, u)
    /\ memberEvents' = Tail(memberEvents)
    /\ UNCHANGED <<probeVars, gateVars, deleteVars, quests, nextQuestId, optin_message_id, role_xp_assignments,
                   memberRoles, guildRoles, optinPending, questCredits>>

\* an actor other than the bot gives a member a role (a level role given by
\* hand is a role of the guild)
external_role_add(u, role) ==
    /\ QueueHasRoom
    /\ role \notin memberRoles[u]
    /\ memberRoles' = [memberRoles EXCEPT ![u] = @ \cup {role}]
    /\ guildRoles' = IF StartsWithLevel(role) THEN guildRoles \cup {role}
                     ELSE guildRoles
    /\ memberEvents' = Append(memberEvents, MemberEvent(u, {role}))
    /\ last' = OtherStep
    /\ sent' = NoMessage
    /\ UNCHANGED <<probeVars, gateVars, deleteVars, tasks, ledger, quests, nextQuestId,
                   optin_message_id, role_xp_assignments, streak_role_gains,
                   optinPending, questCredits>>

\* an actor other than the bot takes a role from a member
external_role_remove(u, role) ==
    /\ role \in memberRoles[u]
    /\ memberRoles' = [memberRoles EXCEPT ![u] = @ \ {role}]
    /\ last' = Step("external_remove", u, 0, role, FALSE)
    /\ sent' = NoMessage
    /\ UNCHANGED <<probeVars, gateVars, deleteVars, tasks, ledger, quests, nextQuestId,
                   optin_message_id, role_xp_assignments, streak_role_gains,
                   guildRoles, memberEvents, optinPending, questCredits>>

----------------------------------------------------------------------------
(* Administrative commands *)

\* addXP / removeXP / setXP: refused for a user who is not opted in
xp_command(op, u, xp_change) ==
    /\ IF ~is_user_opted_in(u)
       THEN /\ last' = Step("refused", u, 0, <<>>, FALSE)
            /\ sent' = NoMessage
            /\ UNCHANGED <<ledger, tasks>>
       ELSE LET res == update_user_xp(ledger, streak_role_gains, tasks,
                                      u, xp_change)
            IN  /\ WithinBounds(res, u)
                /\ ledger' = res.ledger
                /\ tasks' = res.tasks
                /\ last' = Step(op, u, 0, <<>>, res.changed)
                /\ sent' = NoMessage
    /\ UNCHANGED <<probeVars, gateVars, deleteVars, quests, nextQuestId, optin_message_id, role_xp_assignments,
                   streak_role_gains, memberRoles, guildRoles, memberEvents,
                   optinPending, questCredits>>

add_xp_command(u, amount) == xp_command("addXP", u, amount)

remove_xp_command(u, amount) == xp_command("removeXP", u, 0 - amount)

\* the amount itself taken as the change (a faulty variant)
set_xp_change_relative(amount, current_base_xp) == amount

\* xp_change = amount - current_base_xp
set_xp_change(amount, current_base_xp) == amount - current_base_xp

set_xp_command(u, amount) ==
    xp_command("setXP", u, set_xp_change(amount, get_user_data(ledger, u).xp))

\* addquest: the reward is the default 50 or a trailing number (isdigit, at most 10000)
add_quest(xp, channel) ==
    /\ nextQuestId + 1 \in DOMAIN quests
    /\ xp >= 0 /\ xp <= 10000
    /\ nextQuestId' = nextQuestId + 1
    /\ quests' = [quests EXCEPT ![nextQuestId + 1] =
                     [live |-> TRUE, xp_reward |-> xp, completed_users |-> <<>>,
                      channel |-> channel, guild |-> ThisGuild]]
    /\ quest_messages' = quest_messages \cup {nextQuestId + 1}
    /\ last' = OtherStep
    /\ sent' = NoMessage
    /\ UNCHANGED <<probeVars, gateVars, confirmation, tasks, ledger, optin_message_id, role_xp_assignments,
                   streak_role_gains, memberRoles, guildRoles, memberEvents,
                   optinPending, questCredits>>

\* removequest: message.delete(), then DELETE FROM quests WHERE message_id = ?
remove_quest(q) ==
    /\ quests[q].live
    /\ quests' = [quests EXCEPT ![q] = NoQuest]
    /\ quest_messages' = quest_messages \ {q}
    /\ last' = OtherStep
    /\ sent' = NoMessage
    /\ UNCHANGED <<probeVars, gateVars, confirmation, tasks, ledger, nextQuestId, optin_message_id, role_xp_assignments,
                   streak_role_gains, memberRoles, guildRoles, memberEvents,
                   optinPending, questCredits>>

\* QuestBot.assign_role_xp: the dictionary entry is overwritten
set_role_xp(assignments, role, xp_amount, role_type) ==
    [assignments EXCEPT ![role] = [xp |-> xp_amount, type |-> role_type]]

\* the amounts and types the model's administrator uses with assignroleXP
AssignChoices ==
    { <<StreakRole, 0 - 10, "streak">>,
      <<BadgeRole, 60, "badge">>,
      <<LevelRoleName(2), 10, "streak">> }

\* assignroleXP <xp> <role> [type]: any integer amount is accepted
assign_role_xp(xp_amount, role, role_type) ==
    /\ role_type \in {"badge", "streak"}
    /\ role_xp_assignments[role] # [xp |-> xp_amount, type |-> role_type]
    /\ role_xp_assignments' = set_role_xp(role_xp_assignments, role, xp_amount, role_type)
    /\ settings' = save_settings(settings, ThisGuild, optin_message_id, optin_channel_id)
    /\ last' = OtherStep
    /\ sent' = NoMessage
    /\ UNCHANGED <<probeVars, whitelisted_channels, optin_channel_id, deleteVars, tasks, ledger, quests, nextQuestId, optin_message_id,
                   streak_role_gains, memberRoles, guildRoles, memberEvents,
                   optinPending, questCredits>>

StreakMultiAmounts == {0 - 10, 10}

\* assignstreakXP <xp> <roles...>: an amount <= 0 is refused
assign_streak_xp_multi(xp_amount, role) ==
    /\ IF xp_amount <= 0
       THEN UNCHANGED <<role_xp_assignments, settings, last, sent>>
       ELSE /\ role_xp_assignments[role] # [xp |-> xp_amount, type |-> "streak"]
            /\ role_xp_assignments' =
                   set_role_xp(role_xp_assignments, role, xp_amount, "streak")
            /\ settings' = save_settings(settings, ThisGuild, optin_message_id,
                                         optin_channel_id)
            /\ last' = OtherStep
            /\ sent' = NoMessage
    /\ UNCHANGED <<probeVars, whitelisted_channels, optin_channel_id, deleteVars, ledger, quests, nextQuestId, optin_message_id,
                   streak_role_gains, memberRoles, guildRoles, memberEvents,
                   tasks, optinPending, questCredits>>

\* unassignroleXP also deleting the role's rows of the streak log (a faulty
\* variant)
unassign_role_xp_purge(role) ==
    /\ HasAssignment(role)
    /\ role_xp_assignments' = [role_xp_assignments EXCEPT ![role] = NoAssignment]
    /\ streak_role_gains' =
          [u \in Users |-> SelectSeq(streak_role_gains[u], LAMBDA g : g.role # role)]
    /\ settings' = save_settings(settings, ThisGuild, optin_message_id, optin_channel_id)
    /\ last' = OtherStep
    /\ sent' = NoMessage
    /\ UNCHANGED <<probeVars, whitelisted_channels, optin_channel_id, deleteVars, tasks, ledger, quests, nextQuestId,
                   optin_message_id, memberRoles, guildRoles, memberEvents,
                   optinPending, questCredits>>

\* unassignroleXP <roles...>
unassign_role_xp(role) ==
    /\ HasAssignment(role)
    /\ role_xp_assignments' = [role_xp_assignments EXCEPT ![role] = NoAssignment]
    /\ settings' = save_settings(settings, ThisGuild, optin_message_id, optin_channel_id)
    /\ last' = OtherStep
    /\ sent' = NoMessage
    /\ UNCHANGED <<probeVars, whitelisted_channels, optin_channel_id, deleteVars, tasks, ledger, quests, nextQuestId, optin_message_id,
                   streak_role_gains, memberRoles, guildRoles, memberEvents,
                   optinPending, questCredits>>

----------------------------------------------------------------------------
(* The whitelist command *)

\* whitelist add <#channel>: INSERT OR REPLACE INTO whitelisted_channels
add_whitelisted_channel(wl, channel) == wl \cup {channel}

\* whitelist remove <#channel>: DELETE ... WHERE channel_id = ?
remove_whitelisted_channel(wl, channel) == wl \ {channel}

\* whitelist clear: DELETE ... WHERE guild_id = ?
clear_whitelisted_channels(wl) == {}

whitelist_add(channel) ==
    /\ whitelisted_channels' = add_whitelisted_channel(whitelisted_channels, channel)
    /\ last' = Step("whitelist_add", "", 0, <<channel>>, channel \notin whitelisted_channels)
    /\ sent' = NoMessage
    /\ UNCHANGED <<probeVars, deleteVars, optin_channel_id, settings, tasks, ledger, quests, nextQuestId,
                   optin_message_id, role_xp_assignments, streak_role_gains,
                   memberRoles, guildRoles, memberEvents, optinPending,
                   questCredits>>

whitelist_remove(channel) ==
    /\ whitelisted_channels' =
           remove_whitelisted_channel(whitelisted_channels, channel)
    /\ last' = Step("whitelist_remove", "", 0, <<channel>>, channel \in whitelisted_channels)
    /\ sent' = NoMessage
    /\ UNCHANGED <<probeVars, deleteVars, optin_channel_id, settings, tasks, ledger, quests, nextQuestId,
                   optin_message_id, role_xp_assignments, streak_role_gains,
                   memberRoles, guildRoles, memberEvents, optinPending,
                   questCredits>>

whitelist_clear ==
    /\ whitelisted_channels' = clear_whitelisted_channels(whitelisted_channels)
    /\ last' = Step("whitelist_clear", "", 0, <<>>, whitelisted_channels # {})
    /\ sent' = NoMessage
    /\ UNCHANGED <<probeVars, deleteVars, optin_channel_id, settings, tasks, ledger, quests, nextQuestId,
                   optin_message_id, role_xp_assignments, streak_role_gains,
                   memberRoles, guildRoles, memberEvents, optinPending,
                   questCredits>>

----------------------------------------------------------------------------
(* The bot *)

\* the level roles an actor other than the bot hands out by hand
ManualLevelRoles == {LevelRoleName(3)}

\* the gateway events, the level-role tasks and the posting of a quest
NextCore ==
    \/ on_ready
    \/ \E c \in HomeChannels : questbot_optin(c)
    \/ \E u \in Users, m \in MessageIds : on_reaction_add(u, m)
    \/ \E u \in Users : optin_resume(u)
    \/ \E i \in 1..Len(tasks) : level_role_start(i)
    \/ \E i \in 1..Len(tasks) : level_role_grant(i)
    \/ on_member_update
    \/ \E u \in Users, role \in OtherRoles : external_role_add(u, role)
    \/ \E u \in Users, role \in Roles : external_role_remove(u, role)
    \/ \E xp \in QuestRewards, c \in HomeChannels : add_quest(xp, c)

\* the platform refuses a role edit; level roles are also handed out by hand,
\* so that a member holds several stale ones
NextPlatform ==
    \/ \E u \in Users : optin_forbidden(u)
    \/ \E i \in 1..Len(tasks) : level_role_forbidden(i)
    \/ \E i \in 1..Len(tasks) : level_role_remove(i)
    \/ \E u \in Users, role \in ManualLevelRoles : external_role_add(u, role)

\* the manual XP commands and the withdrawal of a quest
NextXp ==
    \/ \E u \in Users, amount \in AddAmounts : add_xp_command(u, amount)
    \/ \E u \in Users, amount \in RemoveAmounts : remove_xp_command(u, amount)
    \/ \E u \in Users, amount \in SetAmounts : set_xp_command(u, amount)
    \/ \E q \in QuestIds : remove_quest(q)

\* the role XP configuration commands
NextAssign ==
    \/ \E c \in AssignChoices : assign_role_xp(c[2], c[1], c[3])
    \/ \E xp \in StreakMultiAmounts : assign_streak_xp_multi(xp, StreakRole)
    \/ \E role \in Roles : unassign_role_xp(role)

\* Spec: quests and manual XP, platform failures included, with no role XP
\* assignment configured
Next == NextCore \/ NextPlatform \/ NextXp

Spec == Init /\ [][Next]_vars

\* SpecRoles: the role XP assignments, with quests the source of base XP
NextRoles == NextCore \/ NextAssign

SpecRoles == Init /\ [][NextRoles]_vars

\* SpecFailure: quests and the addXP and removeXP commands, with every failure
\* of update_user_level_role
NextFailure ==
    \/ NextCore
    \/ \E u \in Users, amount \in AddAmounts : add_xp_command(u, amount)
    \/ \E u \in Users, amount \in RemoveAmounts : remove_xp_command(u, amount)
    \/ \E u \in Users, role \in ManualLevelRoles : external_role_add(u, role)
    \/ \E i \in 1..Len(tasks) : level_role_remove(i)
    \/ \E i \in 1..Len(tasks) : level_role_forbidden(i)
    \/ \E i \in 1..Len(tasks) : level_role_not_found(i)
    \/ \E i \in 1..Len(tasks), k \in CreateFailureLevels :
          level_role_create_failed(i, k)

SpecFailure == Init /\ [][NextFailure]_vars

\* SpecOptIn: quests, manual XP and one streak role assignment together, with
\* no platform failure
NextOptIn ==
    \/ NextCore
    \/ NextXp
    \/ \E xp \in StreakMultiAmounts : assign_streak_xp_multi(xp, StreakRole)

SpecOptIn == Init /\ [][NextOptIn]_vars

\* SpecGate: the event handlers that notify, with the opt-in message and the
\* quests posted in any channel and the whitelist edited at any time
NextGate ==
    \/ \E c \in Channels : whitelist_add(c)
    \/ \E c \in Channels : whitelist_remove(c)
    \/ whitelist_clear
    \/ \E c \in Channels : questbot_optin(c)
    \/ \E xp \in QuestRewards, c \in Channels : add_quest(xp, c)
    \/ \E u \in Users, m \in MessageIds : on_reaction_add(u, m)
    \/ \E u \in Users : optin_resume(u)
    \/ on_member_update
    \/ \E u \in Users, role \in OtherRoles : external_role_add(u, role)
    \/ \E u \in Users, role \in Roles : external_role_remove(u, role)
    \/ \E xp \in StreakMultiAmounts : assign_streak_xp_multi(xp, StreakRole)

SpecGate == Init /\ [][NextGate]_vars

----------------------------------------------------------------------------
(* update_user_level_role on its own: SpecReconcile starts one task, just
   created by setXP, for a member holding any set of roles, and runs nothing
   else *)

\* the levels and the roles of the members SpecReconcile starts from
ReconcileLevels == 1..3

ReconcileRoles == {LevelRoleName(k) : k \in 1..4} \cup {StreakRole}

InitReconcile ==
    \E u \in Users, old_level \in ReconcileLevels, new_level \in ReconcileLevels,
       held \in SUBSET ReconcileRoles, provisioned \in BOOLEAN :
        /\ level_changed(old_level, new_level)
        /\ ledger = [v \in Users |->
                        IF v = u
                        THEN [row |-> TRUE, xp |-> LEVEL_THRESHOLDS[new_level],
                              level |-> new_level]
                        ELSE NoRow]
        /\ memberRoles = [v \in Users |-> IF v = u THEN held ELSE {}]
        /\ guildRoles = IF provisioned THEN LevelRoles
                        ELSE {role \in held : StartsWithLevel(role)}
        /\ tasks = <<NewTask(u, old_level, new_level)>>
        /\ last = Step("setXP", u, 0, <<>>, TRUE)
        /\ quests = [q \in QuestIds |-> NoQuest]
        /\ nextQuestId = 0
        /\ optin_message_id = 0
        /\ role_xp_assignments = [r \in Roles |-> NoAssignment]
        /\ streak_role_gains = [v \in Users |-> <<>>]
        /\ memberEvents = <<>>
        /\ optinPending = [v \in Users |-> 0]
        /\ questCredits = [q \in QuestIds |-> [v \in Users |-> 0]]
        /\ whitelisted_channels = {}
        /\ optin_channel_id = NoChannel
        /\ sent = NoMessage
        /\ InitNoDelete
        /\ InitSettings
        /\ InitProbe

NextReconcile ==
    \/ \E i \in 1..Len(tasks) : level_role_start(i)
    \/ \E i \in 1..Len(tasks) : level_role_remove(i)
    \/ \E i \in 1..Len(tasks) : level_role_grant(i)

SpecReconcile == InitReconcile /\ [][NextReconcile]_vars

----------------------------------------------------------------------------
(* create_level_roles on its own, one iteration of its loop per step:
   SpecProvision runs it, with no failure, in a guild that has any of the ten
   level roles, and then runs it again *)

MaxProvisionRuns == 2

InitProvision == Init

\* an administrator creates a level role by hand, before the bot's first run
guild_role_created(level) ==
    /\ provision.runs = 0
    /\ LevelRoleName(level) \notin guildRoles
    /\ guildRoles' = guildRoles \cup {LevelRoleName(level)}
    /\ UNCHANGED <<creatorVars, pXp, pLevel, pPrev, gCtx, gAllowed, provision, deleteVars, ledger, quests,
                   nextQuestId, optin_message_id, role_xp_assignments,
                   streak_role_gains, memberRoles, memberEvents, tasks,
                   optinPending, last, questCredits, whitelisted_channels,
                   optin_channel_id, settings, sent>>

\* await quest_bot.create_level_roles(guild): the call
create_level_roles_begin ==
    /\ provision.pc = "idle"
    /\ provision.runs < MaxProvisionRuns
    /\ provision' = Provision("run", 1, {}, guildRoles, provision.runs + 1)
    /\ UNCHANGED <<creatorVars, pXp, pLevel, pPrev, gCtx, gAllowed, botVars>>

\* one iteration of `for level in range(1, 11)`
create_level_roles_iter ==
    /\ provision.pc = "run"
    /\ LET level == provision.level
           create == ~existing_role(guildRoles, level)
       IN  /\ guildRoles' = IF create THEN guildRoles \cup {LevelRoleName(level)}
                            ELSE guildRoles
           /\ provision' = [provision EXCEPT
                   !.created = IF create THEN @ \cup {level} ELSE @,
                   !.level = level + 1,
                   !.pc = IF level = 10 THEN "idle" ELSE "run"]
    /\ UNCHANGED <<creatorVars, pXp, pLevel, pPrev, gCtx, gAllowed, deleteVars, ledger, quests,
                   nextQuestId, optin_message_id, role_xp_assignments,
                   streak_role_gains, memberRoles, memberEvents, tasks,
                   optinPending, last, questCredits, whitelisted_channels,
                   optin_channel_id, settings, sent>>

NextProvision ==
    \/ \E level \in 1..10 : guild_role_created(level)
    \/ create_level_roles_begin
    \/ create_level_roles_iter

SpecProvision == InitProvision /\ [][NextProvision]_vars

----------------------------------------------------------------------------
(* Runs of create_level_roles that overlap: each run is suspended in
   guild.create_role between its lookup and the creation, and on_ready, a
   reconciliation with a missing target role and an opt-in with Level 1
   missing all start one *)

\* the callers of create_level_roles
ProvisionCallers == {"on_ready", "update_user_level_role", "on_reaction_add"}

\* the caller's reason to call: update_user_level_role found its target role
\* missing, the opt-in branch found "Level 1" missing
caller_calls(origin, roles) ==
    CASE origin = "on_ready" -> TRUE
      [] origin = "update_user_level_role" ->
            \E level \in 1..10 : ~existing_role(roles, level)
      [] origin = "on_reaction_add" -> ~existing_role(roles, 1)

\* await quest_bot.create_level_roles(guild): the call, once per run
create_level_roles_call(r, origin) ==
    /\ creators[r].pc = "idle"
    /\ caller_calls(origin, guildRoles)
    /\ creators' = [creators EXCEPT ![r] = Creator("lookup", 1, origin)]
    /\ UNCHANGED <<pXp, pLevel, pPrev, gCtx, gAllowed, provision, created_roles, botVars>>

\* the run after the iteration for its level
creator_next(c) ==
    IF c.level = 10 THEN [c EXCEPT !.pc = "done"]
    ELSE [c EXCEPT !.pc = "lookup", !.level = @ + 1]

\* existing_role = discord.utils.get(guild.roles, name=role_name): the role is
\* found, or guild.create_role is called and the run is suspended
create_level_roles_lookup(r) ==
    /\ creators[r].pc = "lookup"
    /\ creators' = [creators EXCEPT ![r] =
                        IF existing_role(guildRoles, creators[r].level)
                        THEN creator_next(@)
                        ELSE [@ EXCEPT !.pc = "create_role"]]
    /\ UNCHANGED <<pXp, pLevel, pPrev, gCtx, gAllowed, provision, created_roles, botVars>>

\* guild.create_role returns: one more role of that name has been created
create_role_returns(r) ==
    /\ creators[r].pc = "create_role"
    /\ created_roles' = [created_roles EXCEPT ![creators[r].level] = @ + 1]
    /\ guildRoles' = guildRoles \cup {LevelRoleName(creators[r].level)}
    /\ creators' = [creators EXCEPT ![r] = creator_next(@)]
    /\ UNCHANGED <<pXp, pLevel, pPrev, gCtx, gAllowed, provision, deleteVars, ledger,
                   quests, nextQuestId, optin_message_id, role_xp_assignments,
                   streak_role_gains, memberRoles, memberEvents, tasks,
                   optinPending, last, questCredits, whitelisted_channels,
                   optin_channel_id, settings, sent>>

\* the guild has none of the level roles, or an administrator made some
InitCreate ==
    /\ ledger = [u \in Users |-> NoRow]
    /\ quests = [q \in QuestIds |-> NoQuest]
    /\ nextQuestId = 0
    /\ optin_message_id = 0
    /\ optin_channel_id = NoChannel
    /\ role_xp_assignments = [r \in Roles |-> NoAssignment]
    /\ streak_role_gains = [u \in Users |-> <<>>]
    /\ memberRoles = [u \in Users |-> {}]
    /\ guildRoles \in {{}, {LevelRoleName(1)}, LevelRoles \ {LevelRoleName(2)}}
    /\ memberEvents = <<>>
    /\ tasks = <<>>
    /\ optinPending = [u \in Users |-> 0]
    /\ last = NoStep
    /\ questCredits = [q \in QuestIds |-> [u \in Users |-> 0]]
    /\ whitelisted_channels = {}
    /\ sent = NoMessage
    /\ InitNoDelete
    /\ InitSettings
    /\ InitProbe

NextCreate ==
    \/ \E r \in 1..MaxCreators, origin \in ProvisionCallers :
          create_level_roles_call(r, origin)
    \/ \E r \in 1..MaxCreators : create_level_roles_lookup(r)
    \/ \E r \in 1..MaxCreators : create_role_returns(r)

SpecCreate == InitCreate /\ [][NextCreate]_vars

----------------------------------------------------------------------------
(* deleteallquests: the confirmation prompt, bot.wait_for with its timeout, and
   the deletion, one step per platform call *)

\* the actors with manage_roles who invoke the command and react to messages
Staff == {"admin", "mod"}

\* the reactions: the two the prompt offers and another one
Emojis == {"white_check_mark", "x", "thumbsup"}

\* the id of the confirmation message
ConfirmationMessageIds == {2001}

\* a message that is neither a quest, the opt-in message nor the prompt
OtherMessageIds == {3001}

\* bot.wait_for('reaction_add', timeout=30.0, check=check)
CONFIRMATION_TIMEOUT == 30

\* the two quests posted before SpecDelete and SpecScenario start
PostedQuests ==
    [q \in 1..2 |->
        [live |-> TRUE, xp_reward |-> IF q = 1 THEN 50 ELSE 60,
         completed_users |-> <<>>, channel |-> first_text_channel,
         guild |-> ThisGuild]]

\* SELECT message_id, channel_id, title FROM quests WHERE guild_id = ?
quests_of_guild(qs, guild_id) ==
    {q \in DOMAIN qs : qs[q].live /\ qs[q].guild = guild_id}

\* the check without the test of the user (a faulty variant)
confirmation_check_any_user(emoji, user, message, conf) ==
    /\ emoji \in {"white_check_mark", "x"}
    /\ message = conf.message_id

\* check(reaction, user) of delete_all_quests
confirmation_check(emoji, user, message, conf) ==
    /\ user = conf.author
    /\ emoji \in {"white_check_mark", "x"}
    /\ message = conf.message_id

\* the command up to bot.wait_for: nothing to delete, or the prompt is sent
delete_all_quests(author) ==
    /\ confirmation.pc = "idle"
    /\ IF quests_of_guild(quests, ThisGuild) = {}
       THEN /\ last' = Step("delete_all_none", author, 0, <<>>, FALSE)
            /\ UNCHANGED confirmation
       ELSE \E m \in ConfirmationMessageIds :
            /\ confirmation' = [pc |-> "waiting", author |-> author, message_id |-> m,
                                quests |-> quests_of_guild(quests, ThisGuild),
                                shown |-> quests_of_guild(quests, ThisGuild),
                                elapsed |-> 0]
            /\ last' = Step("delete_all_asked", author, m, <<>>, FALSE)
    /\ sent' = NoMessage
    /\ UNCHANGED <<probeVars, gateVars, quest_messages, tasks, ledger, quests, nextQuestId,
                   optin_message_id, role_xp_assignments, streak_role_gains,
                   memberRoles, guildRoles, memberEvents, optinPending, questCredits>>

\* one unit of time passes while bot.wait_for waits
confirmation_tick ==
    /\ confirmation.pc = "waiting"
    /\ confirmation.elapsed < CONFIRMATION_TIMEOUT
    /\ confirmation' = [confirmation EXCEPT !.elapsed = @ + 1]
    /\ UNCHANGED <<probeVars, gateVars, quest_messages, last, sent, tasks, ledger, quests,
                   nextQuestId, optin_message_id, role_xp_assignments,
                   streak_role_gains, memberRoles, guildRoles, memberEvents,
                   optinPending, questCredits>>

\* asyncio.TimeoutError: the prompt is edited, nothing else happens
confirmation_timeout ==
    /\ confirmation.pc = "waiting"
    /\ confirmation.elapsed = CONFIRMATION_TIMEOUT
    /\ confirmation' = NoConfirmation
    /\ last' = Step("delete_all_timeout", confirmation.author, confirmation.message_id,
                    <<>>, FALSE)
    /\ sent' = NoMessage
    /\ UNCHANGED <<probeVars, gateVars, quest_messages, tasks, ledger, quests, nextQuestId,
                   optin_message_id, role_xp_assignments, streak_role_gains,
                   memberRoles, guildRoles, memberEvents, optinPending, questCredits>>

\* a reaction_add event of a staff member on the prompt or on another message:
\* on_reaction_add finds neither the opt-in message nor a quest; bot.wait_for
\* returns when check accepts the event
reaction_add_staff(user, emoji, message) ==
    /\ IF /\ confirmation.pc = "waiting"
          /\ confirmation.elapsed < CONFIRMATION_TIMEOUT
          /\ confirmation_check(emoji, user, message, confirmation)
       THEN IF emoji = "x"
            THEN /\ confirmation' = NoConfirmation
                 /\ last' = Step("delete_all_cancelled", user, message, <<emoji>>, FALSE)
            ELSE /\ confirmation' = [confirmation EXCEPT !.pc = "deleting"]
                 /\ last' = Step("delete_all_confirmed", user, message, <<emoji>>, TRUE)
       ELSE /\ last' = Step("reaction_ignored", user, message, <<emoji>>, FALSE)
            /\ UNCHANGED confirmation
    /\ sent' = NoMessage
    /\ UNCHANGED <<probeVars, gateVars, quest_messages, tasks, ledger, quests, nextQuestId,
                   optin_message_id, role_xp_assignments, streak_role_gains,
                   memberRoles, guildRoles, memberEvents, optinPending, questCredits>>

\* what channel.fetch_message and message.delete() do for one quest of the list
MessageOutcomes == {"deleted", "not_found", "failed"}

\* one iteration of the loop over the quests selected before the prompt
delete_all_message(outcome) ==
    /\ confirmation.pc = "deleting"
    /\ confirmation.quests # {}
    /\ LET q == CHOOSE x \in confirmation.quests : \A y \in confirmation.quests : x <= y
       IN  /\ (outcome = "not_found") <=> (q \notin quest_messages)
           /\ quest_messages' = IF outcome = "deleted" THEN quest_messages \ {q}
                                 ELSE quest_messages
           /\ confirmation' = [confirmation EXCEPT !.quests = @ \ {q}]
           /\ last' = Step("delete_all_message", confirmation.author, q, <<outcome>>,
                           outcome # "failed")
    /\ sent' = NoMessage
    /\ UNCHANGED <<probeVars, gateVars, tasks, ledger, quests, nextQuestId,
                   optin_message_id, role_xp_assignments, streak_role_gains,
                   memberRoles, guildRoles, memberEvents, optinPending, questCredits>>

\* DELETE FROM quests WHERE guild_id = ?, then the prompt is edited
delete_all_records ==
    /\ confirmation.pc = "deleting"
    /\ confirmation.quests = {}
    /\ quests' = [q \in DOMAIN quests |->
                     IF q \in quests_of_guild(quests, ThisGuild) THEN NoQuest
                     ELSE quests[q]]
    /\ confirmation' = NoConfirmation
    /\ last' = Step("delete_all_done", confirmation.author, confirmation.message_id,
                    <<>>, TRUE)
    /\ sent' = NoMessage
    /\ UNCHANGED <<probeVars, gateVars, quest_messages, tasks, ledger, nextQuestId,
                   optin_message_id, role_xp_assignments, streak_role_gains,
                   memberRoles, guildRoles, memberEvents, optinPending, questCredits>>

\* SpecDelete: two quests are posted and the member has opted in; quests are
\* acknowledged while the command runs
InitDeleteAll ==
    \E u \in Users, opted \in BOOLEAN :
        /\ quests = PostedQuests
        /\ nextQuestId = 2
        /\ quest_messages \in SUBSET (DOMAIN PostedQuests)
        /\ confirmation = NoConfirmation
        /\ ledger = [v \in Users |->
                        IF v = u /\ opted THEN [row |-> TRUE, xp |-> 0, level |-> 1]
                        ELSE NoRow]
        /\ memberRoles = [v \in Users |->
                             IF v = u /\ opted THEN {LevelRoleName(1)} ELSE {}]
        /\ guildRoles = LevelRoles
        /\ optin_message_id \in OptinMessageIds
        /\ optin_channel_id = first_text_channel
        /\ whitelisted_channels = {}
        /\ role_xp_assignments = [r \in Roles |-> NoAssignment]
        /\ streak_role_gains = [v \in Users |-> <<>>]
        /\ memberEvents = <<>>
        /\ tasks = <<>>
        /\ optinPending = [v \in Users |-> 0]
        /\ last = NoStep
        /\ questCredits = [q \in DOMAIN PostedQuests |-> [v \in Users |-> 0]]
        /\ sent = NoMessage
        /\ InitSettings
        /\ InitProbe

NextDelete ==
    \/ \E author \in Staff : delete_all_quests(author)
    \/ confirmation_tick
    \/ confirmation_timeout
    \/ \E user \in Staff, emoji \in Emojis,
          message \in ConfirmationMessageIds \cup OtherMessageIds :
            reaction_add_staff(user, emoji, message)
    \/ \E outcome \in MessageOutcomes : delete_all_message(outcome)
    \/ delete_all_records
    \/ \E u \in Users, q \in DOMAIN quests : quest_reaction(u, q)

SpecDelete == InitDeleteAll /\ [][NextDelete]_vars

\* SpecLate: a quest of another guild and a quest of this guild are posted,
\* and addquest may post one more while the bulk deletion runs
InitLate ==
    \E opted \in BOOLEAN :
        /\ quests = [q \in 1..3 |->
                        IF q = 3 THEN NoQuest
                        ELSE [PostedQuests[q] EXCEPT
                                 !.guild = IF q = 1 THEN OtherGuild ELSE ThisGuild]]
        /\ nextQuestId = 2
        /\ quest_messages = {1, 2}
        /\ confirmation = NoConfirmation
        /\ ledger = [v \in Users |->
                        IF opted THEN [row |-> TRUE, xp |-> 0, level |-> 1] ELSE NoRow]
        /\ memberRoles = [v \in Users |-> IF opted THEN {LevelRoleName(1)} ELSE {}]
        /\ guildRoles = LevelRoles
        /\ optin_message_id \in OptinMessageIds
        /\ optin_channel_id = first_text_channel
        /\ whitelisted_channels = {}
        /\ role_xp_assignments = [r \in Roles |-> NoAssignment]
        /\ streak_role_gains = [v \in Users |-> <<>>]
        /\ memberEvents = <<>>
        /\ tasks = <<>>
        /\ optinPending = [v \in Users |-> 0]
        /\ last = NoStep
        /\ questCredits = [q \in 1..3 |-> [v \in Users |-> 0]]
        /\ sent = NoMessage
        /\ InitSettings
        /\ InitProbe

NextLate ==
    \/ \E author \in Staff : delete_all_quests(author)
    \/ confirmation_tick
    \/ confirmation_timeout
    \/ \E user \in Staff, emoji \in Emojis, message \in ConfirmationMessageIds :
            reaction_add_staff(user, emoji, message)
    \/ \E outcome \in MessageOutcomes : delete_all_message(outcome)
    \/ delete_all_records
    \/ \E xp \in QuestRewards, c \in HomeChannels : add_quest(xp, c)
    \/ \E u \in Users, q \in quests_of_guild(quests, ThisGuild) : quest_reaction(u, q)

SpecLate == InitLate /\ [][NextLate]_vars

\* SpecWithdraw: the bulk deletion and removequest, with quests acknowledged
\* before and after
NextWithdraw ==
    \/ NextDelete
    \/ \E q \in DOMAIN quests : remove_quest(q)

SpecWithdraw == InitDeleteAll /\ [][NextWithdraw]_vars

----------------------------------------------------------------------------
(* calculate_total_user_xp as its callers use it: checkmemberXP reads the total
   of an opted-in member; the guild or the member may be missing from the cache
   and the loop over the roles may raise *)

ReadOutcomes == {"ok", "guild_not_found", "member_not_found", "error"}

\* the except clause returning what the loop had summed (a faulty variant)
fallback_xp_partial(led, log, u, roles) == total_with_roles(led, log, u, roles)

\* user_data = self.get_user_data(user_id, guild_id); return user_data.get('xp', 0)
fallback_xp(led, log, u, roles) == get_user_data(led, u).xp

\* calculate_total_user_xp: what it returns, the store after its get_user_data,
\* and whether it raised
calculate_total_user_xp_read(led, log, u, roles, outcome) ==
    [value |-> IF outcome = "ok" THEN total_with_roles(led, log, u, roles)
               ELSE fallback_xp(led, log, u, roles),
     ledger |-> get_user_data_store(led, u),
     raised |-> FALSE]

\* checkmemberXP up to the computation of current_xp
check_member_xp(u, outcome) ==
    /\ IF ~is_user_opted_in(u)
       THEN /\ last' = Step("refused", u, 0, <<>>, FALSE)
            /\ UNCHANGED ledger
       ELSE LET res == calculate_total_user_xp_read(ledger, streak_role_gains, u,
                                                    memberRoles[u], outcome)
            IN  /\ ledger' = res.ledger
                /\ last' = Step("total_xp", u, res.value, <<outcome>>, res.raised)
    /\ sent' = NoMessage
    /\ UNCHANGED <<probeVars, gateVars, deleteVars, tasks, quests, nextQuestId,
                   optin_message_id, role_xp_assignments, streak_role_gains,
                   memberRoles, guildRoles, memberEvents, optinPending, questCredits>>

\* SpecRead: quests, a badge role with XP and level roles given by hand
NextRead ==
    \/ on_ready
    \/ \E c \in HomeChannels : questbot_optin(c)
    \/ \E u \in Users, m \in MessageIds : on_reaction_add(u, m)
    \/ \E u \in Users : optin_resume(u)
    \/ \E i \in 1..Len(tasks) : level_role_start(i)
    \/ \E i \in 1..Len(tasks) : level_role_grant(i)
    \/ on_member_update
    \/ \E u \in Users, role \in {BadgeRole} \cup ManualLevelRoles :
          external_role_add(u, role)
    \/ \E xp \in QuestRewards, c \in HomeChannels : add_quest(xp, c)
    \/ \E c \in {x \in AssignChoices : x[1] = BadgeRole} :
          assign_role_xp(c[2], c[1], c[3])
    \/ \E u \in Users, outcome \in ReadOutcomes : check_member_xp(u, outcome)

SpecRead == Init /\ [][NextRead]_vars

----------------------------------------------------------------------------
(* The quest scenario: an opted-in member with no XP, a quest worth 50 and a
   quest worth 60, both posted *)

InitScenario ==
    \E u \in Users :
        /\ quests = PostedQuests
        /\ nextQuestId = 2
        /\ quest_messages = DOMAIN PostedQuests
        /\ confirmation = NoConfirmation
        /\ ledger = [v \in Users |->
                        IF v = u THEN [row |-> TRUE, xp |-> 0, level |-> 1] ELSE NoRow]
        /\ memberRoles = [v \in Users |-> IF v = u THEN {LevelRoleName(1)} ELSE {}]
        /\ guildRoles \in {LevelRoles, {LevelRoleName(1)}}
        /\ optin_message_id \in OptinMessageIds
        /\ optin_channel_id = first_text_channel
        /\ whitelisted_channels \in SUBSET Channels
        /\ role_xp_assignments = [r \in Roles |-> NoAssignment]
        /\ streak_role_gains = [v \in Users |-> <<>>]
        /\ memberEvents = <<>>
        /\ tasks = <<>>
        /\ optinPending = [v \in Users |-> 0]
        /\ last = NoStep
        /\ questCredits = [q \in DOMAIN PostedQuests |-> [v \in Users |-> 0]]
        /\ sent = NoMessage
        /\ InitSettings
        /\ InitProbe

NextScenario ==
    \/ \E u \in Users, q \in DOMAIN quests : quest_reaction(u, q)
    \/ \E i \in 1..Len(tasks) : level_role_start(i)
    \/ \E i \in 1..Len(tasks) : level_role_grant(i)
    \/ on_member_update

SpecScenario == InitScenario /\ [][NextScenario]_vars

----------------------------------------------------------------------------
(* A guild with a role named "Level Designer": SpecNames is the opt-in flow,
   quests and addXP in such a guild *)

\* a role of the guild whose name starts with "Level " and is no level role
LookalikeRole == <<"Level", "Designer">>

InitNames ==
    /\ ledger = [u \in Users |-> NoRow]
    /\ quests = [q \in QuestIds |-> NoQuest]
    /\ nextQuestId = 0
    /\ optin_message_id = 0
    /\ role_xp_assignments = [r \in Roles \cup {LookalikeRole} |-> NoAssignment]
    /\ streak_role_gains = [u \in Users |-> <<>>]
    /\ memberRoles = [u \in Users |-> {}]
    /\ guildRoles = {LookalikeRole}
    /\ memberEvents = <<>>
    /\ tasks = <<>>
    /\ optinPending = [u \in Users |-> 0]
    /\ last = NoStep
    /\ questCredits = [q \in QuestIds |-> [u \in Users |-> 0]]
    /\ whitelisted_channels = {}
    /\ optin_channel_id = NoChannel
    /\ sent = NoMessage
    /\ InitNoDelete
    /\ InitSettings
    /\ InitProbe

NextNames ==
    \/ on_ready
    \/ \E c \in HomeChannels : questbot_optin(c)
    \/ \E u \in Users, m \in MessageIds : on_reaction_add(u, m)
    \/ \E u \in Users : optin_resume(u)
    \/ \E i \in 1..Len(tasks) : level_role_start(i)
    \/ \E i \in 1..Len(tasks) : level_role_grant(i)
    \/ on_member_update
    \/ \E u \in Users, role \in {LookalikeRole, StreakRole} : external_role_add(u, role)
    \/ \E u \in Users, role \in LevelRoles \cup {LookalikeRole} :
          external_role_remove(u, role)
    \/ \E xp \in QuestRewards, c \in HomeChannels : add_quest(xp, c)
    \/ \E u \in Users, amount \in AddAmounts : add_xp_command(u, amount)

SpecNames == InitNames /\ [][NextNames]_vars

----------------------------------------------------------------------------
(* Two members and the two posted quests: SpecPair is the quest branch of
   on_reaction_add for both members, the reconciliations it starts and the
   withdrawal of a quest *)

Members == {"u1", "u2"}

InitPair ==
    \E opted \in SUBSET Members :
        /\ quests = PostedQuests
        /\ nextQuestId = 2
        /\ quest_messages = DOMAIN PostedQuests
        /\ confirmation = NoConfirmation
        /\ ledger = [v \in Members |->
                        IF v \in opted THEN [row |-> TRUE, xp |-> 0, level |-> 1]
                        ELSE NoRow]
        /\ memberRoles = [v \in Members |->
                             IF v \in opted THEN {LevelRoleName(1)} ELSE {}]
        /\ guildRoles = LevelRoles
        /\ optin_message_id \in OptinMessageIds
        /\ optin_channel_id = first_text_channel
        /\ whitelisted_channels = {}
        /\ role_xp_assignments = [r \in Roles |-> NoAssignment]
        /\ streak_role_gains = [v \in Members |-> <<>>]
        /\ memberEvents = <<>>
        /\ tasks = <<>>
        /\ optinPending = [v \in Members |-> 0]
        /\ last = NoStep
        /\ questCredits = [q \in DOMAIN PostedQuests |-> [v \in Members |-> 0]]
        /\ sent = NoMessage
        /\ InitSettings
        /\ InitProbe

NextPair ==
    \/ \E u \in Members, q \in DOMAIN quests : quest_reaction(u, q)
    \/ \E i \in 1..Len(tasks) : level_role_start(i)
    \/ \E i \in 1..Len(tasks) : level_role_grant(i)
    \/ on_member_update
    \/ \E q \in DOMAIN quests : remove_quest(q)

SpecPair == InitPair /\ [][NextPair]_vars

----------------------------------------------------------------------------
(* Two guilds served by the one QuestBot object: SpecGuilds starts when this
   guild has its opt-in message; the other guild gets one, commands of both
   guilds save their settings, on_ready loads them, and the opt-in messages
   are acknowledged *)

\* the opt-in message posted in the other guild
OtherOptinMessageIds == {1002}

\* the opt-in messages of a guild
optin_messages_of(g) == IF g = ThisGuild THEN OptinMessageIds ELSE OtherOptinMessageIds

\* quest_bot.optin_message_id and reaction.message.id == quest_bot.optin_message_id
is_optin_message(m) == optin_message_id # 0 /\ m = optin_message_id

\* questbotoptin run in the other guild, which has no settings yet
questbot_optin_other(channel) ==
    /\ ~settings[OtherGuild].row
    /\ \E m \in OtherOptinMessageIds : optin_message_id' = m
    /\ optin_channel_id' = channel
    /\ settings' = save_settings(settings, OtherGuild, optin_message_id', optin_channel_id')
    /\ last' = Step("questbot_optin", "", optin_message_id', <<OtherGuild>>, TRUE)
    /\ sent' = NoMessage
    /\ UNCHANGED <<probeVars, deleteVars, whitelisted_channels, tasks, ledger, quests,
                   nextQuestId, role_xp_assignments, streak_role_gains, memberRoles,
                   guildRoles, memberEvents, optinPending, questCredits>>

\* assignroleXP run in the other guild: its own assignment table changes (it
\* is not part of the model) and save_settings(ctx.guild.id) is called
assign_role_xp_other ==
    /\ settings' = save_settings(settings, OtherGuild, optin_message_id, optin_channel_id)
    /\ settings' # settings
    /\ last' = Step("assign", "", 0, <<OtherGuild>>, TRUE)
    /\ sent' = NoMessage
    /\ UNCHANGED <<probeVars, deleteVars, whitelisted_channels, optin_channel_id,
                   optin_message_id, tasks, ledger, quests, nextQuestId,
                   role_xp_assignments, streak_role_gains, memberRoles, guildRoles,
                   memberEvents, optinPending, questCredits>>

\* on_reaction_add for a member of the other guild on that guild's opt-in
\* message: the opt-in branch is taken when the message id is the stored one
\* (the grant is made in the other guild), and otherwise no quest is found
on_reaction_add_other(m) ==
    /\ m \in OtherOptinMessageIds
    /\ settings[OtherGuild].row
    /\ last' = Step(IF is_optin_message(m) THEN "optin_other" ELSE "reaction_ignored",
                    "", m, <<OtherGuild>>, is_optin_message(m))
    /\ sent' = NoMessage
    /\ UNCHANGED <<probeVars, gateVars, deleteVars, optin_message_id, tasks, ledger,
                   quests, nextQuestId, role_xp_assignments, streak_role_gains,
                   memberRoles, guildRoles, memberEvents, optinPending, questCredits>>

InitGuilds ==
    /\ ledger = [u \in Users |-> NoRow]
    /\ quests = [q \in QuestIds |-> NoQuest]
    /\ nextQuestId = 0
    /\ optin_message_id \in OptinMessageIds
    /\ optin_channel_id = first_text_channel
    /\ role_xp_assignments = [r \in Roles |-> NoAssignment]
    /\ streak_role_gains = [u \in Users |-> <<>>]
    /\ memberRoles = [u \in Users |-> {}]
    /\ guildRoles \in {{}, LevelRoles}
    /\ memberEvents = <<>>
    /\ tasks = <<>>
    /\ optinPending = [u \in Users |-> 0]
    /\ last = NoStep
    /\ questCredits = [q \in QuestIds |-> [u \in Users |-> 0]]
    /\ whitelisted_channels = {}
    /\ sent = NoMessage
    /\ InitNoDelete
    /\ InitSettings
    /\ InitProbe

NextGuilds ==
    \/ \E c \in HomeChannels : questbot_optin_other(c)
    \/ assign_role_xp_other
    \/ \E m \in OtherOptinMessageIds : on_reaction_add_other(m)
    \/ \E g \in Guilds : on_ready_guild(g)
    \/ \E c \in AssignChoices : assign_role_xp(c[2], c[1], c[3])
    \/ \E u \in Users, m \in MessageIds : on_reaction_add(u, m)
    \/ \E u \in Users : optin_resume(u)
    \/ on_member_update

SpecGuilds == InitGuilds /\ [][NextGuilds]_vars

----------------------------------------------------------------------------
(* The leaderboard: get_leaderboard over the rows of two members *)

\* the limits get_leaderboard is called with (the command passes 10)
LeaderboardLimits == {1, 10}

\* SELECT ... ORDER BY xp DESC: every order of the rows with base XP descending
RowOrders(led) ==
    LET rows == {u \in DOMAIN led : led[u].row}
    IN  {s \in [1..Cardinality(rows) -> rows] :
            /\ \A i, j \in DOMAIN s : i # j => s[i] # s[j]
            /\ \A i, j \in DOMAIN s : i < j => led[s[i]].xp >= led[s[j]].xp}

\* a query with LIMIT in the SQL statement (a faulty variant)
fetchall_limit(all_users, limit) ==
    SubSeq(all_users, 1, IF limit < Len(all_users) THEN limit ELSE Len(all_users))

\* cursor.fetchall(): every row of the guild
fetchall(all_users, limit) == all_users

\* the loop over the rows: (user_id, total_xp, new_level) of each opted-in user
RECURSIVE users_with_total_xp(_, _)
users_with_total_xp(all_users, k) ==
    IF k > Len(all_users) THEN <<>>
    ELSE LET user_id == all_users[k]
             total_xp == TotalXp(user_id)
         IN  IF is_user_opted_in(user_id)
             THEN <<<<user_id, total_xp, calculate_level(total_xp)>>>>
                      \o users_with_total_xp(all_users, k + 1)
             ELSE users_with_total_xp(all_users, k + 1)

\* one entry put into a list sorted by total XP descending, behind its equals
insert_by_total(sorted, entry) ==
    LET before == Cardinality({i \in DOMAIN sorted : sorted[i][2] >= entry[2]})
    IN  SubSeq(sorted, 1, before) \o <<entry>> \o SubSeq(sorted, before + 1, Len(sorted))

\* list.sort(key=lambda x: x[1], reverse=True): a stable sort
RECURSIVE sort_by_total(_, _)
sort_by_total(entries, k) ==
    IF k = 0 THEN <<>>
    ELSE insert_by_total(sort_by_total(entries, k - 1), entries[k])

\* get_leaderboard, from the rows as the SELECT returned them
get_leaderboard(all_users, limit) ==
    LET entries == users_with_total_xp(fetchall(all_users, limit), 1)
        sorted == sort_by_total(entries, Len(entries))
    IN  SubSeq(sorted, 1, IF limit < Len(sorted) THEN limit ELSE Len(sorted))

\* a call of get_leaderboard; the rows of its users exist, nothing is written
leaderboard(limit) ==
    /\ \E all_users \in RowOrders(ledger) :
          last' = Step("leaderboard", "", limit, get_leaderboard(all_users, limit), FALSE)
    /\ sent' = NoMessage
    /\ UNCHANGED <<probeVars, gateVars, deleteVars, tasks, ledger, quests,
                   nextQuestId, optin_message_id, role_xp_assignments,
                   streak_role_gains, memberRoles, guildRoles, memberEvents,
                   optinPending, questCredits>>

\* the base XP of the rows at the start
BoardXp == {0, 50}

\* two members, each opted in or not (a row outlives the level role), each
\* with or without the badge role, which is worth 60 XP
InitBoard ==
    \E opted \in SUBSET Members, holders \in SUBSET Members, xp \in [Members -> BoardXp] :
        /\ quests = PostedQuests
        /\ nextQuestId = 2
        /\ quest_messages = DOMAIN PostedQuests
        /\ confirmation = NoConfirmation
        /\ ledger = [v \in Members |-> [row |-> TRUE, xp |-> xp[v], level |-> 1]]
        /\ memberRoles = [v \in Members |->
                             (IF v \in opted THEN {LevelRoleName(1)} ELSE {})
                                 \cup (IF v \in holders THEN {BadgeRole} ELSE {})]
        /\ guildRoles = LevelRoles
        /\ optin_message_id \in OptinMessageIds
        /\ optin_channel_id = first_text_channel
        /\ whitelisted_channels = {}
        /\ role_xp_assignments = [r \in Roles |->
                                     IF r = BadgeRole THEN [xp |-> 60, type |-> "badge"]
                                     ELSE NoAssignment]
        /\ streak_role_gains = [v \in Members |-> <<>>]
        /\ memberEvents = <<>>
        /\ tasks = <<>>
        /\ optinPending = [v \in Members |-> 0]
        /\ last = NoStep
        /\ questCredits = [q \in DOMAIN PostedQuests |-> [v \in Members |-> 0]]
        /\ sent = NoMessage
        /\ InitSettings
        /\ InitProbe

NextBoard ==
    \/ \E limit \in LeaderboardLimits : leaderboard(limit)
    \/ \E u \in Members, q \in DOMAIN quests : quest_reaction(u, q)
    \/ \E i \in 1..Len(tasks) : level_role_start(i)
    \/ \E i \in 1..Len(tasks) : level_role_grant(i)
    \/ \E u \in Members : external_role_add(u, BadgeRole)
    \/ on_member_update

SpecBoard == InitBoard /\ [][NextBoard]_vars

----------------------------------------------------------------------------
(* The manual XP commands with any integer amount: SpecAmounts is addXP,
   removeXP and setXP for one member, with quests, a 60-XP badge role and the
   reconciliations these start, beside the row of a second member *)

\* amount: int, as typed; the commands do not test its sign
TypedAmounts == {0 - 200, 0 - 30, 0, 30, 95}

InitAmounts ==
    \E opted \in SUBSET Members :
        /\ quests = PostedQuests
        /\ nextQuestId = 2
        /\ quest_messages = DOMAIN PostedQuests
        /\ confirmation = NoConfirmation
        /\ ledger = [v \in Members |->
                        IF v \in opted THEN [row |-> TRUE, xp |-> IF v \in Users THEN 0 ELSE 50, level |-> 1]
                        ELSE NoRow]
        /\ memberRoles = [v \in Members |->
                             IF v \in opted THEN {LevelRoleName(1)} ELSE {}]
        /\ guildRoles = LevelRoles
        /\ optin_message_id \in OptinMessageIds
        /\ optin_channel_id = first_text_channel
        /\ whitelisted_channels = {}
        /\ role_xp_assignments = [r \in Roles |->
                                     IF r = BadgeRole THEN [xp |-> 60, type |-> "badge"]
                                     ELSE NoAssignment]
        /\ streak_role_gains = [v \in Members |-> <<>>]
        /\ memberEvents = <<>>
        /\ tasks = <<>>
        /\ optinPending = [v \in Members |-> 0]
        /\ last = NoStep
        /\ questCredits = [q \in DOMAIN PostedQuests |-> [v \in Members |-> 0]]
        /\ sent = NoMessage
        /\ InitSettings
        /\ InitProbe

NextAmounts ==
    \/ \E u \in Users, amount \in TypedAmounts : add_xp_command(u, amount)
    \/ \E u \in Users, amount \in TypedAmounts : remove_xp_command(u, amount)
    \/ \E u \in Users, amount \in TypedAmounts : set_xp_command(u, amount)
    \/ \E u \in Users, q \in DOMAIN quests : quest_reaction(u, q)
    \/ \E i \in 1..Len(tasks) : level_role_start(i)
    \/ \E i \in 1..Len(tasks) : level_role_grant(i)
    \/ \E u \in Users : external_role_add(u, BadgeRole)
    \/ on_member_update

SpecAmounts == InitAmounts /\ [][NextAmounts]_vars

----------------------------------------------------------------------------
(* Administrative commands with arguments as they are typed: whitelist add and
   remove with a list of channel references, assignroleXP with its type word *)

\* the id of a channel that was deleted from the guild
DeletedChannel == "gone"

\* what int() accepts: the ids of the guild's channels and of the deleted one
ChannelIds == Channels \cup {DeletedChannel}

\* the references typed: a mention, a bare id, a mention of no id, a word
ChannelArgs ==
    {<<"<#", c, ">">> : c \in {"general", "quests", DeletedChannel, "abc"}}
        \cup {<<"staff">>, <<"#general">>}

\* no id: int() raised ValueError
NoId == "ValueError"

\* int(channel_mention[2:-1]) for a mention, int(channel_mention) otherwise
parse_channel(channel_mention) ==
    LET digits == IF Len(channel_mention) = 3 /\ channel_mention[1] = "<#"
                     /\ channel_mention[3] = ">"
                  THEN channel_mention[2]
                  ELSE channel_mention[1]
    IN  IF Len(channel_mention) \in {1, 3} /\ digits \in ChannelIds THEN digits
        ELSE NoId

\* a lookup that finds every id (a faulty variant)
get_channel_any(channel_id) == channel_id

\* ctx.guild.get_channel(channel_id): None for an id of no channel of the guild
get_channel(channel_id) ==
    IF channel_id \in Channels THEN channel_id ELSE NoChannel

\* the loop of whitelist add over the references from position k on
RECURSIVE whitelist_add_loop(_, _, _)
whitelist_add_loop(wl, channels, k) ==
    IF k > Len(channels) THEN wl
    ELSE LET channel_id == parse_channel(channels[k])
             channel == IF channel_id = NoId THEN NoChannel
                        ELSE get_channel(channel_id)
         IN  whitelist_add_loop(
                 IF channel # NoChannel THEN add_whitelisted_channel(wl, channel)
                 ELSE wl,
                 channels, k + 1)

\* the loop of whitelist remove: the id is deleted whether or not the guild
\* still has the channel
RECURSIVE whitelist_remove_loop(_, _, _)
whitelist_remove_loop(wl, channels, k) ==
    IF k > Len(channels) THEN wl
    ELSE LET channel_id == parse_channel(channels[k])
         IN  whitelist_remove_loop(
                 IF channel_id # NoId THEN remove_whitelisted_channel(wl, channel_id)
                 ELSE wl,
                 channels, k + 1)

\* the argument lists the model's administrator types: one or two references
ChannelArgLists ==
    {<<a>> : a \in ChannelArgs} \cup {<<a, b>> : a \in ChannelArgs, b \in ChannelArgs}

\* whitelist <action> <channels...>, action add or remove
whitelist_channels(action, channels) ==
    /\ action \in {"add", "remove"}
    /\ whitelisted_channels' =
          IF action = "add"
          THEN whitelist_add_loop(whitelisted_channels, channels, 1)
          ELSE whitelist_remove_loop(whitelisted_channels, channels, 1)
    /\ last' = Step("whitelist", action, 0, channels,
                    whitelisted_channels' # whitelisted_channels)
    /\ sent' = NoMessage
    /\ UNCHANGED <<probeVars, deleteVars, optin_channel_id, settings, tasks, ledger, quests,
                   nextQuestId, optin_message_id, role_xp_assignments,
                   streak_role_gains, memberRoles, guildRoles, memberEvents,
                   optinPending, questCredits>>

\* the type words typed with assignroleXP
RoleTypeWords == {"badge", "Streak", "bonus"}

\* assignroleXP <xp> <role> [type]: the type is compared in lower case
assign_role_xp_command(xp_amount, role, role_type) ==
    /\ IF Lower(role_type) \notin {"badge", "streak"}
       THEN /\ last' = Step("assign_invalid", "", xp_amount, role, FALSE)
            /\ UNCHANGED <<role_xp_assignments, settings>>
       ELSE /\ role_xp_assignments' =
                  set_role_xp(role_xp_assignments, role, xp_amount, Lower(role_type))
            /\ settings' = save_settings(settings, ThisGuild, optin_message_id,
                                         optin_channel_id)
            /\ last' = Step("assign", "", xp_amount, role, TRUE)
    /\ sent' = NoMessage
    /\ UNCHANGED <<probeVars, whitelisted_channels, optin_channel_id, deleteVars, tasks, ledger, quests, nextQuestId,
                   optin_message_id, streak_role_gains, memberRoles, guildRoles,
                   memberEvents, optinPending, questCredits>>

\* SpecAdmin: a whitelist that may hold the id of a deleted channel
InitAdmin ==
    /\ whitelisted_channels \in {{}, {DeletedChannel}}
    /\ ledger = [u \in Users |-> NoRow]
    /\ quests = [q \in QuestIds |-> NoQuest]
    /\ nextQuestId = 0
    /\ optin_message_id = 0
    /\ role_xp_assignments = [r \in Roles |-> NoAssignment]
    /\ streak_role_gains = [u \in Users |-> <<>>]
    /\ memberRoles = [u \in Users |-> {}]
    /\ guildRoles = {}
    /\ memberEvents = <<>>
    /\ tasks = <<>>
    /\ optinPending = [u \in Users |-> 0]
    /\ last = NoStep
    /\ questCredits = [q \in QuestIds |-> [u \in Users |-> 0]]
    /\ optin_channel_id = NoChannel
    /\ sent = NoMessage
    /\ InitNoDelete
    /\ InitSettings
    /\ InitProbe

NextAdmin ==
    \/ \E action \in {"add", "remove"}, channels \in ChannelArgLists :
          whitelist_channels(action, channels)
    \/ whitelist_clear
    \/ \E c \in AssignChoices, role_type \in RoleTypeWords :
          assign_role_xp_command(c[2], c[1], role_type)

SpecAdmin == InitAdmin /\ [][NextAdmin]_vars

----------------------------------------------------------------------------
(* Two runs of update_user_level_role for one member: SpecRace starts right
   after two level changes in quick succession, each of which created its
   task, and interleaves the platform calls of the two tasks *)

InitRace ==
    \E u \in Users, first_level \in ReconcileLevels, second_level \in ReconcileLevels,
       third_level \in ReconcileLevels, held \in SUBSET ReconcileRoles :
        /\ LevelRoleName(first_level) \in held
        /\ level_changed(first_level, second_level)
        /\ level_changed(second_level, third_level)
        /\ ledger = [v \in Users |->
                        IF v = u
                        THEN [row |-> TRUE, xp |-> LEVEL_THRESHOLDS[third_level],
                              level |-> third_level]
                        ELSE NoRow]
        /\ memberRoles = [v \in Users |->
                             IF v = u THEN held ELSE {}]
        /\ guildRoles = LevelRoles
        /\ tasks = <<NewTask(u, first_level, second_level),
                     NewTask(u, second_level, third_level)>>
        /\ last = Step("setXP", u, 0, <<>>, TRUE)
        /\ quests = [q \in QuestIds |-> NoQuest]
        /\ nextQuestId = 0
        /\ optin_message_id = 0
        /\ role_xp_assignments = [r \in Roles |-> NoAssignment]
        /\ streak_role_gains = [v \in Users |-> <<>>]
        /\ memberEvents = <<>>
        /\ optinPending = [v \in Users |-> 0]
        /\ questCredits = [q \in QuestIds |-> [v \in Users |-> 0]]
        /\ whitelisted_channels = {}
        /\ optin_channel_id = NoChannel
        /\ sent = NoMessage
        /\ InitNoDelete
        /\ InitSettings
        /\ InitProbe

NextRace ==
    \/ \E i \in 1..Len(tasks) : level_role_start(i)
    \/ \E i \in 1..Len(tasks) : level_role_remove(i)
    \/ \E i \in 1..Len(tasks) : level_role_grant(i)
    \/ on_member_update

SpecRace == InitRace /\ [][NextRace]_vars

----------------------------------------------------------------------------
(* Two acknowledgements of the opt-in message by one user handled at the same
   time: SpecDoubleOptIn starts when both handlers have found no level role
   and are suspended in member.add_roles *)

InitDoubleOptIn ==
    \E u \in Users, channel \in Channels, has_row \in BOOLEAN,
       others \in SUBSET OtherRoles, provisioned \in BOOLEAN :
        /\ optin_message_id \in OptinMessageIds
        /\ optin_channel_id = channel
        /\ whitelisted_channels \in SUBSET Channels
        /\ optinPending = [v \in Users |-> IF v = u THEN 2 ELSE 0]
        /\ ledger = [v \in Users |->
                        IF v = u /\ has_row
                        THEN [row |-> TRUE, xp |-> 0, level |-> 1]
                        ELSE NoRow]
        /\ memberRoles = [v \in Users |-> IF v = u THEN others ELSE {}]
        /\ guildRoles = IF provisioned THEN LevelRoles ELSE {}
        /\ tasks = <<>>
        /\ last = OtherStep
        /\ quests = [q \in QuestIds |-> NoQuest]
        /\ nextQuestId = 0
        /\ role_xp_assignments = [r \in Roles |-> NoAssignment]
        /\ streak_role_gains = [v \in Users |-> <<>>]
        /\ memberEvents = <<>>
        /\ questCredits = [q \in QuestIds |-> [v \in Users |-> 0]]
        /\ sent = NoMessage
        /\ InitNoDelete
        /\ InitSettings
        /\ InitProbe

NextDoubleOptIn ==
    \/ \E u \in Users : optin_resume(u)
    \/ \E u \in Users : optin_forbidden(u)
    \/ on_member_update

SpecDoubleOptIn == InitDoubleOptIn /\ [][NextDoubleOptIn]_vars

----------------------------------------------------------------------------
(* calculate_level on its own: SpecLevel feeds it inputs around every threshold *)

ProbeInputs ==
    {0 - MaxProbeXp, 0 - 1, MaxProbeXp}
        \cup {LEVEL_THRESHOLDS[l] + d : l \in Levels, d \in {0 - 1, 0, 1, 50}}

\* the next input; the finished computation, when there is one, is remembered
probe_input(xp) ==
    /\ pXp' = xp
    /\ pLevel' = 0
    /\ pPrev' = IF pLevel # 0 THEN <<pXp, pLevel>> ELSE pPrev
    /\ UNCHANGED <<botVars, gCtx, gAllowed, provision, creatorVars>>

\* level = calculate_level(xp)
probe_calculate_level ==
    /\ pLevel = 0
    /\ pLevel' = calculate_level(pXp)
    /\ UNCHANGED <<creatorVars, pXp, pPrev, botVars, gCtx, gAllowed, provision>>

NextLevel ==
    \/ \E xp \in ProbeInputs : probe_input(xp)
    \/ probe_calculate_level

SpecLevel == Init /\ [][NextLevel]_vars

----------------------------------------------------------------------------
(* The global check of commands on its own: SpecCheck invokes commands from
   every kind of actor in every channel, under every whitelist *)

\* the commands the model's actors invoke
CommandNames == {"whitelist", "leaderboard", "addXP"}

Contexts ==
    {Context(TRUE, m, c, ch) : m \in BOOLEAN, c \in CommandNames, ch \in Channels}
        \cup {Context(FALSE, FALSE, c, NoChannel) : c \in CommandNames}

\* bot.add_check(is_channel_whitelisted_check): the check runs before the command
command_invoked(ctx) ==
    /\ gCtx' = ctx
    /\ gAllowed' = is_channel_whitelisted_check(ctx, whitelisted_channels)
    /\ UNCHANGED <<creatorVars, pXp, pLevel, pPrev, provision, botVars>>

NextCheck ==
    \/ \E ctx \in Contexts : command_invoked(ctx)
    \/ \E c \in Channels : whitelist_add(c)
    \/ \E c \in Channels : whitelist_remove(c)
    \/ whitelist_clear

SpecCheck == Init /\ [][NextCheck]_vars

----------------------------------------------------------------------------
(* Properties *)

\* the level roles a member holds
level_roles_held(u) == {role \in memberRoles[u] : StartsWithLevel(role)}

\* nothing is waiting to run: no undelivered event, no suspended handler, no task
Quiescent ==
    /\ memberEvents = <<>>
    /\ tasks = <<>>
    /\ \A u \in Users : optinPending[u] = 0

\* how many times u occurs in a completed_users list
Occurrences(completed_users, u) ==
    Cardinality({i \in 1..Len(completed_users) : completed_users[i] = u})

\* C1: quest completion is exactly-once per (user, quest).  Whatever checkmark
\* acknowledgements arrive on a quest message, the same one again included, a
\* user id is in the quest's completed_users at most once and the quest's
\* reward has been added to the user's base XP at most once.
C1_QuestExactlyOnce ==
    \A q \in QuestIds, u \in Users :
        /\ Occurrences(quests[q].completed_users, u) <= 1
        /\ questCredits[q][u] <= 1
        /\ quests[q].live =>
              (questCredits[q][u] = 1 <=> u \in Range(quests[q].completed_users))

\* C1 witness: a second acknowledgement of a completed quest has been handled,
\* and the user then holds the reward once
C1_Witness ==
    /\ last.op = "ack_dup"
    /\ questCredits[last.msg][last.user] = 1
    /\ Occurrences(quests[last.msg].completed_users, last.user) = 1
    /\ ledger[last.user].xp = quests[last.msg].xp_reward

CachedLevelCurrent(u) ==
    ledger[u].row => ledger[u].level = calculate_level(TotalXp(u))

\* C3: cached-level invariant.  A member whose cached level is current loses a
\* role; once the role-set change has been handled and nothing is waiting to
\* run, the cached level is again the level of the total XP.
C3_CachedLevelAfterRoleLoss ==
    [][ \A u \in Users :
          ( /\ CachedLevelCurrent(u)
            /\ last'.op = "external_remove"
            /\ last'.user = u
            /\ Quiescent' )
          => CachedLevelCurrent(u)' ]_vars

\* C4: markers never drift from the ledger.  For every opted-in user with a
\* ledger row, whenever no level-role task, event or handler is waiting to run,
\* the level roles the user holds are exactly the role of the cached level.
C4_MarkerMatchesCachedLevel ==
    Quiescent =>
        \A u \in Users :
            (is_user_opted_in(u) /\ ledger[u].row) =>
                level_roles_held(u) = {LevelRoleName(ledger[u].level)}

\* the handler takes the event "u gained role" off the queue while u is opted
\* in and the role has a streak assignment
GainsStreakRole(u, role) ==
    /\ memberEvents # <<>>
    /\ Head(memberEvents) = MemberEvent(u, {role})
    /\ memberEvents' = Tail(memberEvents)
    /\ is_user_opted_in(u)
    /\ get_role_xp_and_type(role).type = "streak"

\* the step changes nothing of u's roles but whether u holds role
HoldingChanges(u, role) ==
    /\ memberRoles'[u] # memberRoles[u]
    /\ memberRoles'[u] \ {role} = memberRoles[u] \ {role}

\* C5: streak XP is strictly additive.  Each time an opted-in user gains a
\* role with a streak assignment of x, one row with x is appended to the
\* user's streak log, so the accumulated streak XP and the total XP grow by x;
\* no other step touches the log, so N gains of a role at x stand for N * x.
\* Gaining or losing the role itself leaves the total XP as it is: the amount
\* is in the total whether the role is held or not.
C5_StreakAdditive ==
    [][ \A u \in Users :
          /\ \A role \in Roles :
                GainsStreakRole(u, role) =>
                    LET x == get_role_xp_and_type(role).xp
                    IN  /\ streak_role_gains'[u] =
                              Append(streak_role_gains[u],
                                     [role |-> role, xp_awarded |-> x])
                        /\ get_accumulated_streak_xp(streak_role_gains', u) =
                              get_accumulated_streak_xp(streak_role_gains, u) + x
                        /\ TotalXp(u)' = TotalXp(u) + x
          /\ (~ \E role \in Roles : GainsStreakRole(u, role)) =>
                streak_role_gains'[u] = streak_role_gains[u]
          /\ \A role \in Roles :
                ( /\ HoldingChanges(u, role)
                  /\ get_role_xp_and_type(role).type = "streak" )
                => TotalXp(u)' = TotalXp(u) ]_vars

\* C5 witness: the user has gained the streak role twice at 10 XP, the role
\* was taken away after the second gain, and 20 XP of the total are streak XP
C5_Witness ==
    \E u \in Users :
        /\ last.op = "external_remove"
        /\ last.role = StreakRole
        /\ last.user = u
        /\ streak_role_gains[u] = << [role |-> StreakRole, xp_awarded |-> 10],
                                     [role |-> StreakRole, xp_awarded |-> 10] >>
        /\ TotalXp(u) = get_user_data(ledger, u).xp + 20

\* the handler takes the event "u gained role" off the queue while u is opted
\* in and the role has a badge assignment
GainsBadgeRole(u, role) ==
    /\ memberEvents # <<>>
    /\ Head(memberEvents) = MemberEvent(u, {role})
    /\ memberEvents' = Tail(memberEvents)
    /\ is_user_opted_in(u)
    /\ get_role_xp_and_type(role).type = "badge"

\* C6: badge XP is state-based and non-duplicating.  For a role that is not a
\* level role and has a badge assignment of x, the total XP of a user who holds
\* it is x more than it would be without the role, and the total of a user who
\* does not hold it has nothing for it; handling a role-change event writes no
\* base XP and no streak row for it, whatever the number of events.
C6_BadgeStateBased ==
    [][ \A u \in Users :
          \A role \in Roles \ LevelRoles :
            get_role_xp_and_type(role).type = "badge" =>
              /\ TotalXp(u) =
                    total_with_roles(ledger, streak_role_gains, u,
                                     memberRoles[u] \ {role})
                    + (IF role \in memberRoles[u]
                       THEN get_role_xp_and_type(role).xp ELSE 0)
              /\ GainsBadgeRole(u, role) =>
                    /\ TotalXp(u)' = TotalXp(u)
                    /\ get_user_data(ledger', u).xp = get_user_data(ledger, u).xp
                    /\ streak_role_gains' = streak_role_gains
              /\ ( /\ memberEvents # <<>>
                   /\ memberEvents' = Tail(memberEvents)
                   /\ Head(memberEvents).user = u
                   /\ role \in memberRoles[u] ) =>
                    TotalXp(u)' - TotalXp(u) =
                        get_accumulated_streak_xp(streak_role_gains', u)
                          - get_accumulated_streak_xp(streak_role_gains, u) ]_vars

\* C6 witness: the gain of the badge role has been handled, the user holds it
\* and the total XP has its 60 once
C6_Witness ==
    \E u \in Users :
        /\ last.op = "badge"
        /\ last.user = u
        /\ last.role = BadgeRole
        /\ BadgeRole \in memberRoles[u]
        /\ TotalXp(u) = get_user_data(ledger, u).xp + 60
                           + get_accumulated_streak_xp(streak_role_gains, u)

\* the sum of the assigned amounts over a set of roles
RECURSIVE SumAssigned(_)
SumAssigned(roles) ==
    IF roles = {} THEN 0
    ELSE LET role == CHOOSE r \in roles : TRUE
         IN  role_xp_assignments[role].xp + SumAssigned(roles \ {role})

\* the sum of xp_awarded over the first n rows of a streak log
RECURSIVE SumRows(_, _)
SumRows(rows, n) ==
    IF n = 0 THEN 0 ELSE rows[n].xp_awarded + SumRows(rows, n - 1)

\* C7: the total XP of a user is the base XP, plus the assigned amount of
\* every held role that is no level role and has a badge assignment, plus 5
\* for every held role that is no level role, has no assignment and has
\* "badge" in its name whatever the case, plus the xp_awarded of every row of
\* the user's streak log; a held role with a streak assignment adds nothing.
C7_TotalXpFormula ==
    \A u \in Users :
        LET held == memberRoles[u] \ LevelRoles
            badge == {role \in held : role_xp_assignments[role].type = "badge"}
            named == {role \in held :
                        /\ role_xp_assignments[role].type = "none"
                        /\ \E i \in 1..Len(role) : role[i] \in {"badge", "Badge", "BADGE"}}
        IN  TotalXp(u) =
                (IF ledger[u].row THEN ledger[u].xp ELSE 0)
                + SumAssigned(badge)
                + 5 * Cardinality(named)
                + SumRows(streak_role_gains[u], Len(streak_role_gains[u]))

\* C7 witness: a user with base XP holds a role with a badge assignment and a
\* role with a streak assignment and has a streak row; the last step computed
\* the total
C7_Witness ==
    \E u \in Users :
        /\ last.op \in {"quest_done", "streak"}
        /\ last.user = u
        /\ ledger[u].xp = 50
        /\ BadgeRole \in memberRoles[u]
        /\ role_xp_assignments[BadgeRole].type = "badge"
        /\ StreakRole \in memberRoles[u]
        /\ role_xp_assignments[StreakRole] = [xp |-> 10, type |-> "streak"]
        /\ streak_role_gains[u] = << [role |-> StreakRole, xp_awarded |-> 10] >>
        /\ TotalXp(u) = 120

\* C8: level roles never contribute to the total XP.  Whatever assignment an
\* administrator has given a level role, no row of a streak log names a level
\* role, so gaining one adds nothing to the accumulated streak XP.
C8_NoStreakRowForLevelRole ==
    \A u \in Users :
        \A i \in 1..Len(streak_role_gains[u]) :
            streak_role_gains[u][i].role \notin LevelRoles

\* C9: calculate_level(xp) is the highest level whose threshold is <= xp, and
\* 1 for xp below 0, over ten strictly ascending thresholds the first of which
\* is 0; the result is in 1..10 and does not decrease when xp grows.
C9_HighestLevel ==
    /\ Len(LEVEL_THRESHOLDS) = 10
    /\ LEVEL_THRESHOLDS[1] = 0
    /\ \A l \in 1..9 : LEVEL_THRESHOLDS[l] < LEVEL_THRESHOLDS[l + 1]
    /\ pLevel # 0 =>
          /\ pLevel \in 1..10
          /\ pXp < 0 => pLevel = 1
          /\ pXp >= 0 =>
                /\ LEVEL_THRESHOLDS[pLevel] <= pXp
                /\ \A l \in 1..10 : LEVEL_THRESHOLDS[l] <= pXp => l <= pLevel
          /\ (pPrev[2] # 0 /\ pPrev[1] <= pXp) => pPrev[2] <= pLevel
          /\ (pPrev[2] # 0 /\ pPrev[1] >= pXp) => pPrev[2] >= pLevel

\* C9 witness: the level of an input on a threshold has been computed after that
\* of a negative input
C9_Witness ==
    /\ pXp = LEVEL_THRESHOLDS[2]
    /\ pLevel = 2
    /\ pPrev[1] < 0
    /\ pPrev[2] = 1

\* the handler completes a quest for u: u enters the quest's completed_users
CompletesQuest(u) ==
    \E q \in QuestIds :
        /\ u \notin Range(quests[q].completed_users)
        /\ u \in Range(quests'[q].completed_users)

\* C10: the total XP of a user never decreases across a quest completion or a
\* streak role gain, whatever role XP assignments the administrator has made.
C10_TotalXpNeverDecreases ==
    [][ \A u \in Users :
          (CompletesQuest(u) \/ \E role \in Roles : GainsStreakRole(u, role))
              => TotalXp(u)' >= TotalXp(u) ]_vars

----------------------------------------------------------------------------
\* C11: opt-in is idempotent.  An acknowledgement on the opt-in message by a
\* user who already holds a level marker inserts no ledger row, grants no
\* marker (no handler is left waiting in member.add_roles) and sends no welcome
\* notification: the ledger and the role state of the platform are unchanged.
C11_OptInIdempotent ==
    [][\A u \in Users :
          (/\ level_roles_held(u) # {}
           /\ optin_message_id # 0
           /\ on_reaction_add(u, optin_message_id))
          => /\ ledger' = ledger
             /\ memberRoles' = memberRoles
             /\ guildRoles' = guildRoles
             /\ optinPending' = optinPending
             /\ sent'.kind # "welcome"]_vars

\* a user holding a level marker and a ledger row has acknowledged again
C11_Witness ==
    /\ last.op = "optin_skip"
    /\ level_roles_held(last.user) # {}
    /\ ledger[last.user].row
    /\ ledger[last.user].xp > 0

----------------------------------------------------------------------------
\* C12: opt-in transition.  The handler of an acknowledgement by a user who held
\* no level marker, once member.add_roles has returned, has granted Level 1;
\* it creates the ledger row with base XP 0 and level 1 only when the user has
\* none, and leaves the base XP and the level of an existing row unchanged.
C12_OptInTransition ==
    [][\A u \in Users :
          optin_resume(u)
          => /\ LevelRoleName(1) \in memberRoles'[u]
             /\ ledger'[u].row
             /\ IF ledger[u].row
                THEN ledger'[u].xp = ledger[u].xp /\ ledger'[u].level = ledger[u].level
                ELSE ledger'[u].xp = 0 /\ ledger'[u].level = 1
             /\ \A v \in Users \ {u} : ledger'[v] = ledger[v]]_vars

\* a user whose ledger row holds XP has opted in again after losing the markers
C12_Witness ==
    /\ last.op = "optin"
    /\ ~last.flag
    /\ LevelRoleName(1) \in memberRoles[last.user]
    /\ ledger[last.user].xp > 0

----------------------------------------------------------------------------
\* the steps that could credit XP to u: a quest acknowledgement, the handling
\* of a role-set change, an addXP, removeXP or setXP command
XpEventFor(u) ==
    \/ \E q \in QuestIds : quest_reaction(u, q)
    \/ memberEvents # <<>> /\ Head(memberEvents).user = u /\ on_member_update
    \/ \E amount \in AddAmounts : add_xp_command(u, amount)
    \/ \E amount \in RemoveAmounts : remove_xp_command(u, amount)
    \/ \E amount \in SetAmounts : set_xp_command(u, amount)

\* C13: XP accrual requires opt-in.  A quest acknowledgement, a role-set change
\* or a manual XP command for a user who holds no level marker leaves the
\* user's ledger row, the completedBy list of every quest and the streak-gain
\* log unchanged.
C13_AccrualRequiresOptIn ==
    [][\A u \in Users :
          (level_roles_held(u) = {} /\ XpEventFor(u))
          => /\ ledger'[u] = ledger[u]
             /\ \A q \in QuestIds :
                    quests'[q].completed_users = quests[q].completed_users
             /\ streak_role_gains' = streak_role_gains]_vars

\* a user with XP in the ledger and a streak role assignment in force, who
\* holds no level marker any more, has been refused
C13_Witness ==
    /\ last.op \in {"refused", "skip"}
    /\ level_roles_held(last.user) = {}
    /\ ledger[last.user].xp > 0
    /\ last.op = "skip" => HasAssignment(last.role)

----------------------------------------------------------------------------
\* C14 as stated: for every command invoked in the community, the check passes
\* when the actor is privileged, passes when the whitelist is empty, and
\* otherwise passes exactly when the channel is in the whitelist.
C14_GateEveryCommand ==
    [][\A ctx \in Contexts :
          (ctx.guild /\ command_invoked(ctx))
          => gAllowed' = (\/ ctx.manage_guild
                          \/ whitelisted_channels = {}
                          \/ ctx.channel \in whitelisted_channels)]_vars

\* C14, amended: the same for every command other than the whitelist command,
\* which passes the check for every actor in every channel.
C14_GateExceptWhitelist ==
    [][\A ctx \in Contexts :
          (ctx.guild /\ command_invoked(ctx))
          => gAllowed' = (\/ ctx.manage_guild
                          \/ ctx.command = "whitelist"
                          \/ whitelisted_channels = {}
                          \/ ctx.channel \in whitelisted_channels)]_vars

\* a command of an unprivileged actor was blocked outside a non-empty whitelist
C14_Witness ==
    /\ gCtx.guild
    /\ ~gCtx.manage_guild
    /\ gCtx.command # "whitelist"
    /\ whitelisted_channels # {}
    /\ gCtx.channel \notin whitelisted_channels
    /\ ~gAllowed

----------------------------------------------------------------------------
\* C15: the channel gate applies to every notification of the event handlers.
\* While the whitelist is not empty, no welcome, quest-completion,
\* streak-role-gain or badge-role-gain notification is delivered to a channel
\* outside the whitelist.
C15_NotificationsGated ==
    [][(/\ sent'.kind \in {"welcome", "quest_completed", "streak_role", "badge_role"}
        /\ last'.op \in {"optin", "quest_done", "streak", "badge", "auto_badge"}
        /\ whitelisted_channels # {})
       => sent'.channel \in whitelisted_channels]_vars

----------------------------------------------------------------------------
\* what a gated send of a notification to a channel results in, given the
\* whitelist in force: the message, or nothing
Delivered(kind, channel, u) ==
    IF whitelisted_channels = {} \/ channel \in whitelisted_channels
    THEN Message(kind, channel, u)
    ELSE NoMessage

\* C16: the whitelist scenario.  With an empty whitelist a gated send (the
\* welcome, the quest-completion notice) to any channel is delivered; once a
\* channel was added, a gated send to any channel outside the whitelist is
\* suppressed and one to a whitelisted channel is delivered; the whitelist
\* commands add and remove exactly the named channel and clear removes all, so
\* after a clear or the removal of the last entry every send is delivered again.
C16_WhitelistScenario ==
    [][/\ \A u \in Users :
            optin_resume(u) => sent' = Delivered("welcome", optin_channel_id, u)
       /\ \A u \in Users, q \in QuestIds :
            (quest_reaction(u, q) /\ last'.op = "quest_done")
            => sent' = Delivered("quest_completed", quests[q].channel, u)
       /\ \A c \in Channels :
            /\ whitelist_add(c) => whitelisted_channels' = whitelisted_channels \cup {c}
            /\ whitelist_remove(c) => whitelisted_channels' = whitelisted_channels \ {c}
       /\ whitelist_clear => whitelisted_channels' = {}]_vars

\* a quest was completed in a channel outside the one-channel whitelist and
\* the notice was suppressed
C16_Witness ==
    /\ last.op = "quest_done"
    /\ Cardinality(whitelisted_channels) = 1
    /\ quests[last.msg].channel \notin whitelisted_channels
    /\ sent = NoMessage

----------------------------------------------------------------------------
\* C17: update_user_level_role run alone with no platform failure, from any set
\* of level roles held (none, the target only, one stale role, several stale
\* roles): when it ends, the member holds the role of the target level and no
\* other level role; no step of it takes away a role that is not a level role,
\* and it always reaches its end.
C17_LoneReconciliation ==
    /\ [](\A i \in 1..Len(tasks) :
            ENABLED (level_role_start(i) \/ level_role_remove(i)
                        \/ level_role_grant(i)))
    /\ [][\A i \in 1..Len(tasks) :
             LET u == tasks[i].user
                 target == LevelRoleName(tasks[i].new_level)
             IN  /\ level_role_grant(i)
                    => {role \in memberRoles'[u] : StartsWithLevel(role)} = {target}
                 /\ \A role \in memberRoles[u] \ memberRoles'[u] :
                        StartsWithLevel(role) /\ role # target]_vars

\* the run is over for a member who held the target role and two stale level
\* roles (the only level roles of the guild): the target role is the one level
\* role left, and the streak role is still held
C17_Witness ==
    /\ tasks = <<>>
    /\ last.op = "level_role_done"
    /\ last.flag
    /\ guildRoles = {LevelRoleName(1), LevelRoleName(3), LevelRoleName(4)}
    /\ level_roles_held(last.user) = {LevelRoleName(1)}
    /\ last.role = LevelRoleName(1)
    /\ StreakRole \in memberRoles[last.user]

----------------------------------------------------------------------------
\* C18: a failed removal of a stale level role does not prevent the grant.
\* When member.remove_roles fails in a reconciliation, that reconciliation
\* does not end before the member holds the role of the target level.
C18_GrantDespiteFailedRemoval ==
    [][\A i \in 1..Len(tasks) :
          (~RemovalsDone(i) /\ level_role_forbidden(i))
          => LevelRoleName(tasks[i].new_level) \in memberRoles'[tasks[i].user]]_vars

----------------------------------------------------------------------------
\* a step at which the reconciliation of task i ends in a failure
ReconciliationFails(i) ==
    \/ level_role_forbidden(i)
    \/ level_role_not_found(i)
    \/ \E k \in CreateFailureLevels :
          level_role_create_failed(i, k) /\ last'.op = "level_role_failed"

\* C19: a failure of the marker reconciliation (missing permission, guild or
\* member not found, role creation failure) neither rolls back nor blocks the
\* XP accounting.  The failing step changes nothing in the ledger, the quests,
\* the streak-gain log or the queue of events, it ends its own task only; when
\* the task ran right after the operation that created it, the ledger holds the
\* level that operation wrote; and after the failure an XP command for the
\* same user can run and moves the base XP as usual.
C19_FailureLeavesAccounting ==
    /\ [](last.op = "level_role_failed"
            => /\ last.flag => ledger[last.user].level = last.msg
               /\ \A amount \in RemoveAmounts :
                      ENABLED remove_xp_command(last.user, amount))
    /\ [][/\ \A i \in 1..Len(tasks) :
               ReconciliationFails(i)
               => /\ ledger' = ledger
                  /\ quests' = quests
                  /\ questCredits' = questCredits
                  /\ streak_role_gains' = streak_role_gains
                  /\ memberEvents' = memberEvents
                  /\ optinPending' = optinPending
                  /\ tasks' = RemoveAt(tasks, i)
           /\ \A u \in Users, amount \in AddAmounts :
               (/\ last.op = "level_role_failed"
                /\ last.user = u
                /\ level_roles_held(u) # {}
                /\ add_xp_command(u, amount))
               => ledger'[u].xp = ledger[u].xp + amount]_vars

\* the reconciliation that followed a level-up failed: the level-up is in the
\* ledger, the member does not hold the role of the new level
C19_Witness ==
    /\ last.op = "level_role_failed"
    /\ last.flag
    /\ ledger[last.user].level = 2
    /\ ledger[last.user].xp = 100
    /\ LevelRoleName(2) \notin memberRoles[last.user]

----------------------------------------------------------------------------
\* C20: lazy provisioning is idempotent.  A failure-free run of
\* create_level_roles creates a role for each level 1..10 that had none when it
\* began and for no level that had one, so that at its end all ten exist and
\* exactly the missing ones were created; a second run creates nothing.
C20_ProvisioningIdempotent ==
    /\ provision.pc = "run"
       => /\ provision.created =
                {l \in 1..(provision.level - 1) :
                    LevelRoleName(l) \notin provision.before}
          /\ guildRoles = provision.before
                 \cup {LevelRoleName(l) : l \in provision.created}
    /\ (provision.pc = "idle" /\ provision.runs >= 1)
       => /\ provision.created = {l \in 1..10 : LevelRoleName(l) \notin provision.before}
          /\ guildRoles = LevelRoles
          /\ provision.runs >= 2 => provision.created = {}

\* the first run is over in a guild that had the roles of levels 2 and 5 only
C20_Witness ==
    /\ provision.pc = "idle"
    /\ provision.runs = 1
    /\ provision.before = {LevelRoleName(2), LevelRoleName(5)}
    /\ provision.created = (1..10) \ {2, 5}
    /\ guildRoles = LevelRoles

----------------------------------------------------------------------------
\* C21: concurrent reconciliations for one user do not conflict.  After two
\* level changes in quick succession, once both reconciliations are over, under
\* every interleaving of their platform calls, the member holds exactly one
\* level role, the one of the level the ledger holds.
C21_ConcurrentReconciliations ==
    \A u \in Users :
        (tasks = <<>> /\ ledger[u].row)
        => level_roles_held(u) = {LevelRoleName(ledger[u].level)}

----------------------------------------------------------------------------
\* C22: no lost update on the ledger.  Whatever else is under way (a suspended
\* opt-in handler, a role event not yet delivered, a reconciliation task), each
\* XP-changing event takes effect on the base XP the row holds when the event is
\* handled: a quest acknowledgement adds the reward once and never again, addXP
\* adds and removeXP subtracts (not below 0) the amount, setXP leaves the amount,
\* and every other step, a role gain included, leaves every base XP as it was.
C22_NoLostUpdate ==
    [][\A u \in Users :
         LET before == ledger[u].xp
             after == ledger'[u].xp
             opted == level_roles_held(u) # {}
         IN  /\ \A q \in QuestIds :
                   (quest_reaction(u, q) /\ quests[q].live /\ opted) =>
                       IF questCredits[q][u] = 0
                       THEN /\ after = before + quests[q].xp_reward
                            /\ questCredits'[q][u] = 1
                       ELSE /\ after = before
                            /\ questCredits'[q][u] = 1
             /\ \A amount \in AddAmounts :
                   (add_xp_command(u, amount) /\ opted) => after = before + amount
             /\ \A amount \in RemoveAmounts :
                   (remove_xp_command(u, amount) /\ opted) =>
                       after = (IF before > amount THEN before - amount ELSE 0)
             /\ \A amount \in SetAmounts :
                   (set_xp_command(u, amount) /\ opted) => after = amount
             /\ (~ \/ \E q \in QuestIds : quest_reaction(u, q)
                   \/ \E amount \in AddAmounts : add_xp_command(u, amount)
                   \/ \E amount \in RemoveAmounts : remove_xp_command(u, amount)
                   \/ \E amount \in SetAmounts : set_xp_command(u, amount))
                => after = before
    ]_vars

\* C22 witness: the quest reward and a manual addition have both taken effect
\* (50 + 50) while a role event is undelivered and a reconciliation is pending
C22_Witness ==
    \E u \in Users :
        /\ last.op = "addXP"
        /\ last.user = u
        /\ ledger[u].xp = 100
        /\ \E q \in QuestIds : questCredits[q][u] = 1
        /\ memberEvents # <<>>
        /\ tasks # <<>>

----------------------------------------------------------------------------
\* C23: double opt-in is a no-op under concurrency.  Of two acknowledgements of
\* the opt-in message by one user handled at the same time, the handler that
\* resumes when the user already holds Level 1 grants nothing, inserts no ledger
\* row and sends no welcome.
C23_DoubleOptInNoOp ==
    [][\A u \in Users :
         (optin_resume(u) /\ LevelRoleName(1) \in memberRoles[u]) =>
             /\ memberRoles'[u] = memberRoles[u]
             /\ ledger' = ledger
             /\ sent'.kind # "welcome"
    ]_vars

----------------------------------------------------------------------------
\* a quest record or a quest message disappears in the step
QuestDataDeleted ==
    \/ \E q \in DOMAIN quests : quests[q].live /\ ~quests'[q].live
    \/ \E q \in quest_messages : q \notin quest_messages'

\* the step changes nothing but the state of the prompt and the history
OnlyPromptChanges ==
    /\ quests' = quests
    /\ quest_messages' = quest_messages
    /\ UNCHANGED <<ledger, nextQuestId, optin_message_id, role_xp_assignments,
                   streak_role_gains, memberRoles, guildRoles, memberEvents, tasks,
                   optinPending, questCredits, whitelisted_channels, optin_channel_id,
                   settings>>

\* C24: the bulk quest deletion requires confirmation.  When the 30 units of
\* the timeout pass with no confirmation, or the invoking actor answers with the
\* cancel reaction, no quest record and no quest message is deleted, all other
\* state is unchanged and the run is over; a reaction of another actor, another
\* reaction or a reaction on another message does not end the wait; quest data
\* is deleted only by a run that is deleting, and a run starts deleting only
\* from waiting, by the confirm reaction of the invoking actor on the
\* confirmation message before the timeout.
C24_DeletionRequiresConfirmation ==
    [][/\ confirmation_timeout =>
            /\ confirmation.elapsed = CONFIRMATION_TIMEOUT
            /\ OnlyPromptChanges
            /\ confirmation'.pc = "idle"
       /\ \A message \in ConfirmationMessageIds \cup OtherMessageIds :
            ( /\ reaction_add_staff(confirmation.author, "x", message)
              /\ confirmation.pc = "waiting"
              /\ message = confirmation.message_id
              /\ confirmation.elapsed < CONFIRMATION_TIMEOUT ) =>
                /\ OnlyPromptChanges
                /\ confirmation'.pc = "idle"
       /\ \A user \in Staff, emoji \in Emojis,
             message \in ConfirmationMessageIds \cup OtherMessageIds :
            ( /\ reaction_add_staff(user, emoji, message)
              /\ confirmation.pc = "waiting"
              /\ \/ user # confirmation.author
                 \/ emoji = "thumbsup"
                 \/ message # confirmation.message_id ) =>
                /\ OnlyPromptChanges
                /\ confirmation' = confirmation
       /\ QuestDataDeleted => confirmation.pc = "deleting"
       /\ (confirmation'.pc = "deleting" /\ confirmation.pc # "deleting") =>
            /\ confirmation.pc = "waiting"
            /\ confirmation.elapsed < CONFIRMATION_TIMEOUT
            /\ reaction_add_staff(confirmation.author, "white_check_mark",
                                  confirmation.message_id)
            /\ last'.user = confirmation.author
    ]_vars

\* C24 witness: the wait has timed out; both quest records and both quest
\* messages are still there
C24_Witness ==
    /\ last.op = "delete_all_timeout"
    /\ confirmation.pc = "idle"
    /\ \A q \in DOMAIN quests : quests[q].live
    /\ quest_messages = DOMAIN quests

----------------------------------------------------------------------------
\* C25: totalXp is a pure read.  A computation of the total XP of a user, one
\* with no ledger row included, inserts and modifies no ledger row and changes
\* nothing in the roles of the platform.
C25_TotalXpPureRead ==
    [][\A u \in Users, outcome \in ReadOutcomes :
         check_member_xp(u, outcome) =>
             /\ ledger' = ledger
             /\ memberRoles' = memberRoles
             /\ guildRoles' = guildRoles
    ]_vars

\* C26: when the live role membership cannot be read (guild not found, user not
\* a member, an error while the roles are read), the total returned is the
\* base XP of the user alone, and nothing is raised to the caller.
C26_FallbackToBaseXp ==
    [][\A u \in Users, outcome \in ReadOutcomes \ {"ok"} :
         (check_member_xp(u, outcome) /\ level_roles_held(u) # {}) =>
             /\ last'.op = "total_xp"
             /\ last'.msg = ledger[u].xp
             /\ ~last'.flag
    ]_vars

\* C26 witness: the member has 50 base XP and a badge role worth 60; a read
\* that failed on the roles returned 50
C26_Witness ==
    \E u \in Users :
        /\ last = Step("total_xp", u, 50, <<"error">>, FALSE)
        /\ ledger[u].xp = 50
        /\ BadgeRole \in memberRoles[u]
        /\ role_xp_assignments[BadgeRole] = [xp |-> 60, type |-> "badge"]
        /\ TotalXp(u) = 110

----------------------------------------------------------------------------
\* C27: the quest scenario.  An opted-in user with base XP 0, cached level 1
\* and the role Level 1 completes the 50 XP quest: the total is 50, the cached
\* level is 1, the user holds exactly Level 1 and no reconciliation is started.
\* The user then completes the 60 XP quest: the total is 110 and the cached
\* level 2, and once the reconciliation is over the user holds exactly Level 2.
C27_QuestScenario ==
    \A u \in Users :
        /\ (questCredits[1][u] = 1 /\ questCredits[2][u] = 0) =>
              /\ TotalXp(u) = 50
              /\ ledger[u].level = 1
              /\ level_roles_held(u) = {LevelRoleName(1)}
              /\ tasks = <<>>
        /\ (questCredits[1][u] = 1 /\ questCredits[2][u] = 1) =>
              /\ TotalXp(u) = 110
              /\ ledger[u].level = 2
              /\ tasks = <<>> => level_roles_held(u) = {LevelRoleName(2)}

\* C27 witness: both quests are completed, the 60 XP quest last, and the
\* reconciliation has left Level 2 alone
C27_Witness ==
    \E u \in Users :
        /\ quests[1].completed_users = <<u>>
        /\ quests[2].completed_users = <<u>>
        /\ ledger[u] = [row |-> TRUE, xp |-> 110, level |-> 2]
        /\ tasks = <<>>
        /\ memberRoles[u] = {LevelRoleName(2)}

----------------------------------------------------------------------------
\* the step is an administrative mutation: a role's XP assignment is set,
\* changed or removed, or a base XP is adjusted by hand
AdministrativeMutation ==
    \/ \E c \in AssignChoices : assign_role_xp(c[2], c[1], c[3])
    \/ \E xp \in StreakMultiAmounts : assign_streak_xp_multi(xp, StreakRole)
    \/ \E role \in Roles : unassign_role_xp(role)
    \/ \E u \in Users, amount \in AddAmounts : add_xp_command(u, amount)
    \/ \E u \in Users, amount \in RemoveAmounts : remove_xp_command(u, amount)
    \/ \E u \in Users, amount \in SetAmounts : set_xp_command(u, amount)

\* C28: every administrative mutation goes through the level recomputation.
\* After a command that sets, changes or removes a role's XP assignment, and
\* after a manual base XP adjustment, the cached level of every opted-in user
\* whose cached level was current before is the level of the user's total XP.
C28_AdministrativeRecompute ==
    [][\A u \in Users :
         ( /\ AdministrativeMutation
           /\ ledger[u].row
           /\ level_roles_held(u) # {}
           /\ CachedLevelCurrent(u) ) => CachedLevelCurrent(u)'
    ]_vars

----------------------------------------------------------------------------
\* C29: opt-in status is derived live.  A user is treated as opted in if and
\* only if the user holds one of the ten roles Level 1 .. Level 10; a role of
\* any other name does not make a user opted in.
C29_OptInDerivedLive ==
    \A u \in Users : is_user_opted_in(u) <=> (memberRoles[u] \cap LevelRoles # {})

----------------------------------------------------------------------------
\* C30: the streak-gain log is an append-only event log.  In every step the
\* records a user's log held are still there, unchanged and in place, and at
\* most one record is added at the end; a record is added exactly when a
\* role-set change is handled in which an opted-in user was given a role with a
\* streak assignment, whether or not the log already has records of that role,
\* and the record names that role.  No record is added for a role with a badge
\* assignment, a badge-named or unassigned role, a removed role or a user who
\* is not opted in, and unassigning or reassigning a role's XP leaves the log
\* as it is.
C30_StreakLogAppendOnly ==
    [][\A u \in Users :
         LET log == streak_role_gains[u]
             after == streak_role_gains'[u]
             gained == {role \in Roles : GainsStreakRole(u, role)}
         IN  /\ Len(after) >= Len(log)
             /\ Len(after) <= Len(log) + 1
             /\ \A k \in 1..Len(log) : after[k] = log[k]
             /\ (Len(after) = Len(log) + 1) <=> (gained # {})
             /\ \A role \in gained : after[Len(after)].role = role
    ]_vars

\* C30 witness: the user gained the streak role twice and the log holds two
\* records of it; the role's assignment has since been removed
C30_Witness ==
    \E u \in Users :
        /\ Len(streak_role_gains[u]) = 2
        /\ \A k \in 1..2 : streak_role_gains[u][k].role = StreakRole
        /\ ~HasAssignment(StreakRole)
        /\ StreakRole \notin memberRoles[u]

----------------------------------------------------------------------------
\* C31: while a quest record exists its completed_users only grows.  No step
\* takes a user id out of the list of a quest whose record stays; when an
\* opted-in user who is not in the list acknowledges the quest, whoever else
\* has acknowledged it before and whatever reconciliation is under way, the
\* list afterwards holds the ids it held and this user's, the user's base XP
\* has grown by the reward and no other user's row has changed.
C31_CompletedByGrows ==
    [][\A q \in DOMAIN quests :
         LET before == quests[q].completed_users
             after == quests'[q].completed_users
         IN  /\ (quests[q].live /\ quests'[q].live) =>
                   /\ Len(after) >= Len(before)
                   /\ \A k \in 1..Len(before) : after[k] = before[k]
             /\ \A u \in Members :
                   ( /\ quest_reaction(u, q)
                     /\ quests[q].live
                     /\ level_roles_held(u) # {}
                     /\ u \notin Range(before) ) =>
                       /\ Range(after) = Range(before) \cup {u}
                       /\ ledger'[u].xp = ledger[u].xp + quests[q].xp_reward
                       /\ questCredits'[q][u] = 1
                       /\ \A v \in Members \ {u} : ledger'[v] = ledger[v]
    ]_vars

\* C31 witness: both members have acknowledged the 50 XP quest, u2 first, and
\* both are in its list with 50 base XP each
C31_Witness ==
    /\ quests[1].live
    /\ quests[1].completed_users = <<"u2", "u1">>
    /\ \A u \in Members : ledger[u].xp = 50 /\ questCredits[1][u] = 1
    /\ last = Step("quest_done", "u1", 1, <<>>, FALSE)

----------------------------------------------------------------------------
\* the reference is unparseable, or names no channel of the guild
BadReference(channel_mention) ==
    \/ parse_channel(channel_mention) = NoId
    \/ parse_channel(channel_mention) \notin Channels

\* the step is a run of the whitelist command
WhitelistStep(action) ==
    /\ last'.op = "whitelist"
    /\ last'.user = action
    /\ last' # last

\* the ids named by the references of the command that satisfy ok
NamedIds(channels, ok(_)) ==
    {parse_channel(channels[k]) : k \in {j \in 1..Len(channels) : ok(channels[j])}}

\* C32 as stated: a configuration error in an administrative command mutates
\* no state.  assignroleXP with an invalid type leaves the assignment table
\* unchanged, and a whitelist add or remove whose arguments include an
\* unparseable or unknown channel reference leaves the whitelist unchanged.
C32_ConfigErrorMutatesNothing ==
    [][/\ last'.op = "assign_invalid" => role_xp_assignments' = role_xp_assignments
       /\ ( /\ WhitelistStep("add") \/ WhitelistStep("remove")
            /\ \E k \in 1..Len(last'.role) : BadReference(last'.role[k]) )
          => whitelisted_channels' = whitelisted_channels
    ]_vars

\* C32 amended: assignroleXP with an invalid type leaves the assignment table
\* unchanged; in whitelist add an unparseable or unknown reference adds
\* nothing, and in whitelist remove an unparseable reference removes nothing,
\* while the other references of the command are applied: add puts exactly
\* the guild's channels named by the references into the whitelist, remove
\* takes exactly the ids named by the parseable references out of it, and a
\* command with no usable reference leaves the whitelist unchanged.
C32_BadReferenceSkipped ==
    [][/\ last'.op = "assign_invalid" => role_xp_assignments' = role_xp_assignments
       /\ WhitelistStep("add") =>
             whitelisted_channels' = whitelisted_channels \cup
                 NamedIds(last'.role, LAMBDA m : ~BadReference(m))
       /\ WhitelistStep("remove") =>
             whitelisted_channels' = whitelisted_channels \
                 NamedIds(last'.role, LAMBDA m : parse_channel(m) # NoId)
    ]_vars

\* C32 witness: whitelist add with an unparseable reference and a mention of
\* the quests channel has added the quests channel alone
C32_Witness ==
    /\ last = Step("whitelist", "add", 0, <<<<"<#", "abc", ">">>, <<"<#", "quests", ">">>>>, TRUE)
    /\ whitelisted_channels = {"quests"}

----------------------------------------------------------------------------
\* the users a leaderboard lists
Listed(board) == {board[i][1] : i \in DOMAIN board}

\* the users with a row who are opted in
Ranked == {u \in DOMAIN ledger : ledger[u].row /\ is_user_opted_in(u)}

\* C33: the leaderboard lists only users who are opted in at the time of the
\* query, each once with totalXp and levelFromXp(totalXp), ordered by totalXp
\* descending and cut to the limit; no opted-in user of the ledger with a
\* larger totalXp than a listed user is left out.
C33_LeaderboardByTotalXp ==
    [][( last'.op = "leaderboard" /\ last' # last ) =>
        LET board == last'.role
            limit == last'.msg
        IN  /\ \A i \in DOMAIN board :
                  /\ board[i][1] \in Ranked
                  /\ board[i][2] = TotalXp(board[i][1])
                  /\ board[i][3] = calculate_level(TotalXp(board[i][1]))
            /\ \A i, j \in DOMAIN board : i < j =>
                  /\ board[i][1] # board[j][1]
                  /\ board[i][2] >= board[j][2]
            /\ Len(board) = IF limit < Cardinality(Ranked) THEN limit
                            ELSE Cardinality(Ranked)
            /\ \A u \in Ranked \ Listed(board) :
                  \A i \in DOMAIN board : board[i][2] >= TotalXp(u)
    ]_vars

\* C33 witness: with limit 1 the leaderboard lists u1 (base XP 50, badge 60,
\* total 110) while u2, opted in as well, has the larger base XP 100
C33_Witness ==
    /\ last = Step("leaderboard", "", 1, <<<<"u1", 110, 2>>>>, FALSE)
    /\ ledger["u1"].xp = 50
    /\ ledger["u2"].xp = 100
    /\ is_user_opted_in("u2")

----------------------------------------------------------------------------
\* the step is an operation on u that reaches update_user_xp or
\* check_and_update_level_roles: a manual XP command for an opted-in user, a
\* first acknowledgement of a live quest, the handling of an XP-bearing role
XpOperation(u) ==
    \/ /\ last'.op \in {"addXP", "removeXP", "setXP", "quest_done"}
       /\ last'.user = u
       /\ is_user_opted_in(u)
       /\ \/ \E amount \in TypedAmounts : add_xp_command(u, amount)
          \/ \E amount \in TypedAmounts : remove_xp_command(u, amount)
          \/ \E amount \in TypedAmounts : set_xp_command(u, amount)
          \/ \E q \in DOMAIN quests :
                /\ quests[q].live
                /\ u \notin Range(quests[q].completed_users)
                /\ quest_reaction(u, q)
    \/ /\ memberEvents # <<>>
       /\ Head(memberEvents).user = u
       /\ \E role \in Head(memberEvents).added :
             added_role_kind(u, role) \in {"streak", "badge", "auto_badge"}
       /\ on_member_update

\* the step is a step of a level-role task of u
ReconciliationStep(u) ==
    \E i \in 1..Len(tasks) :
        /\ tasks[i].user = u
        /\ level_role_start(i) \/ level_role_grant(i)

\* C34: level-change detection is the only trigger for marker work.  An
\* XP-changing operation touches no role; when the level computed from the new
\* total equals the stored cached level it leaves the cached level and the
\* task list as they are, and when the two differ it stores the new level and
\* starts exactly one reconciliation, from the stored to the new level, with
\* the new level already in the ledger; level roles change only in the steps
\* of such a reconciliation.
C34_LevelChangeOnlyTrigger ==
    [][\A u \in Members :
        /\ XpOperation(u) =>
              LET stored == ledger[u].level
                  fresh == calculate_level(TotalXp(u))'
              IN  /\ memberRoles' = memberRoles
                  /\ guildRoles' = guildRoles
                  /\ fresh = stored =>
                        /\ ledger'[u].level = stored
                        /\ tasks' = tasks
                  /\ fresh # stored =>
                        /\ ledger'[u].level = fresh
                        /\ tasks' = Append(tasks, NewTask(u, stored, fresh))
        /\ level_roles_held(u)' # level_roles_held(u) => ReconciliationStep(u)
    ]_vars

\* C34 witness: addXP has raised u1 to level 2: the ledger holds level 2 and
\* the reconciliation from 1 to 2 has been started and has not run yet
C34_Witness ==
    /\ last = Step("addXP", "u1", 0, <<>>, TRUE)
    /\ ledger["u1"].level = 2
    /\ tasks = <<NewTask("u1", 1, 2)>>
    /\ level_roles_held("u1") = {LevelRoleName(1)}

\* C35: base XP is never negative.  After any sequence of quest completions and
\* addXP, removeXP and setXP commands with any integer amounts every ledger
\* entry has base XP >= 0, and removing at least as much XP as the user has
\* leaves base XP at 0.
C35_BaseXpNeverNegative ==
    /\ [](\A u \in DOMAIN ledger : ledger[u].xp >= 0)
    /\ [][\A u \in Users, amount \in TypedAmounts :
            ( /\ is_user_opted_in(u)
              /\ amount >= ledger[u].xp
              /\ remove_xp_command(u, amount) ) => ledger'[u].xp = 0
       ]_vars

\* C35 witness: u1 has completed the 50-XP quest and a removeXP has left the
\* base XP at 0
C35_Witness ==
    /\ last.op = "removeXP"
    /\ last.user = "u1"
    /\ questCredits[1]["u1"] = 1
    /\ ledger["u1"].xp = 0

\* C36: setXP is absolute and idempotent.  For an opted-in user the base XP
\* after setXP(amount) is max(0, amount) whatever it was before, and the same
\* setXP issued again in the state reached changes neither ledger nor tasks.
C36_SetXpAbsolute ==
    [][\A u \in Users, amount \in TypedAmounts :
        ( /\ last'.op = "setXP"
          /\ is_user_opted_in(u)
          /\ set_xp_command(u, amount) ) =>
            /\ ledger'[u].xp = Max(0, amount)
            /\ LET again == update_user_xp(ledger, streak_role_gains, tasks, u,
                                           amount - ledger[u].xp)'
               IN  /\ again.ledger = ledger'
                   /\ again.tasks = tasks'
    ]_vars

\* C36 witness: u1 has completed both quests (50 and 60 XP) and a setXP has
\* put the base XP at 30
C36_Witness ==
    /\ last.op = "setXP"
    /\ last.user = "u1"
    /\ questCredits[1]["u1"] = 1
    /\ questCredits[2]["u1"] = 1
    /\ ledger["u1"].xp = 30

----------------------------------------------------------------------------
\* C37: withdrawing a quest, by removequest or by a confirmed bulk deletion,
\* changes no ledger row (base XP and cached level earned from it are kept),
\* and an acknowledgement is credited only on a quest whose record exists:
\* none is credited on a withdrawn quest's message.
C37_WithdrawalKeepsXp ==
    [][/\ \A q \in DOMAIN quests :
            ( quests[q].live /\ ~quests'[q].live ) => ledger' = ledger
       /\ \A q \in DOMAIN quests :
            ~quests[q].live =>
                /\ questCredits'[q] = questCredits[q]
                /\ ~( /\ last'.op = "quest_done"
                      /\ last'.msg = q
                      /\ ledger' # ledger )
    ]_vars

\* C37 witness: u1 completed the 50-XP quest, the bulk deletion has removed
\* the records, and u1 still has the 50 XP
C37_Witness ==
    /\ last.op = "delete_all_done"
    /\ ~quests[1].live
    /\ questCredits[1]["u1"] = 1
    /\ ledger["u1"].xp >= 50

----------------------------------------------------------------------------
\* C38: a confirmed bulk deletion removes exactly the quests shown in its
\* confirmation prompt.  When the deletion completes, the records of the
\* quests listed for the prompt are gone and every other record is as it was:
\* a quest added in the same guild while the confirmation was pending and
\* every quest of another guild still have their records.
C38_DeletesExactlyShown ==
    [][( /\ confirmation.pc = "deleting"
         /\ last'.op = "delete_all_done"
         /\ delete_all_records ) =>
            \A q \in DOMAIN quests :
                quests'[q] = IF q \in confirmation.shown THEN NoQuest ELSE quests[q]
    ]_vars

----------------------------------------------------------------------------
\* C39: opt-in configuration is per community.  Once a guild's row holds its
\* own opt-in message, an acknowledgement on that message is handled as an
\* opt-in (the handler's test of the message id succeeds), whatever has been
\* created, saved or loaded for the other guild; and no guild's row ever
\* holds the opt-in message of the other guild.
C39_OptInPerCommunity ==
    \A g \in Guilds :
        settings[g].row =>
            /\ settings[g].optin_message_id \in optin_messages_of(g) =>
                  is_optin_message(settings[g].optin_message_id)
            /\ settings[g].optin_message_id \in optin_messages_of(g) \cup {0}

----------------------------------------------------------------------------
\* C40: at most one role exists per level name in a guild.  Under every
\* interleaving of runs of create_level_roles (startup, a reconciliation that
\* finds its target missing, an opt-in that finds Level 1 missing) the guild
\* never has two roles named "Level k".
C40_OneRolePerLevelName ==
    \A level \in 1..10 : created_roles[level] <= 1

====
